---- MODULE Spec2Model ----
(***************************************************************************)
(* State-machine model of the Switchbot device-pairing wizard              *)
(* (homeassistant/components/switchbot/config_flow.py).                    *)
(*                                                                         *)
(* A run ("flow") is one SwitchbotConfigFlow object driven by the host's   *)
(* flow manager.  The model keeps one record per run and the shared store  *)
(* of config entries.  Python dicts are functions with a string domain,    *)
(* Python strings that the code takes apart (addresses) are sequences of   *)
(* one-character strings, None is a distinguished value of the same shape. *)
(***************************************************************************)
EXTENDS Integers, Sequences, FiniteSets, TLC

(* ------------------------------ bounds -------------------------------- *)

\* number of wizard runs the host starts
MaxFlows == 2

FlowIds == 1 .. MaxFlows

(* ------------------------- strings and addresses ---------------------- *)

Addr1 == <<"A", "1", ":", "B", "2", ":", "C", "3">>
Addr2 == <<"A", "1", ":", "B", "2", ":", "D", "4">>
Addresses == {Addr1, Addr2}

\* str.lower() on one character
Lower(c) ==
    CASE c = "A" -> "a" [] c = "B" -> "b" [] c = "C" -> "c"
      [] c = "D" -> "d" [] c = "E" -> "e" [] c = "F" -> "f"
      [] OTHER -> c

\* str.upper() on one character
Upper(c) ==
    CASE c = "a" -> "A" [] c = "b" -> "B" [] c = "c" -> "C"
      [] c = "d" -> "D" [] c = "e" -> "E" [] c = "f" -> "F"
      [] OTHER -> c

\* str.replace(old, new) where old is one character and new is a string
RECURSIVE Replace(_, _, _)
Replace(s, old, new) ==
    IF s = << >> THEN << >>
    ELSE (IF Head(s) = old THEN new ELSE <<Head(s)>>) \o Replace(Tail(s), old, new)

\* str.lower() on a string
LowerAll(s) == [i \in 1 .. Len(s) |-> Lower(s[i])]

\* str.upper() on a string
UpperAll(s) == [i \in 1 .. Len(s) |-> Upper(s[i])]

\* str.split(sep): the list of the parts between the separators
RECURSIVE SplitFrom(_, _, _)
SplitFrom(s, sep, cur) ==
    IF s = << >> THEN <<cur>>
    ELSE IF Head(s) = sep THEN <<cur>> \o SplitFrom(Tail(s), sep, << >>)
    ELSE SplitFrom(Tail(s), sep, Append(cur, Head(s)))

Split(s, sep) == SplitFrom(s, sep, << >>)

\* s[-n:]
LastN(s, n) == IF Len(s) <= n THEN s ELSE SubSeq(s, Len(s) - n + 1, Len(s))

format_unique_id(address) == LowerAll(Replace(address, ":", << >>))

short_address(address) ==
    LET results == Split(Replace(address, "-", <<":">>), ":")
        n == Len(results)
    IN  LastN(UpperAll(results[n - 1]) \o UpperAll(results[n]), 4)

\* None for a unique id (a unique id is a non-empty string)
NoId == << >>

(* ------------------------------ models -------------------------------- *)

LOCK == "WoLock"
BOT == "WoHand"
METER == "WoSensorTH"
\* a model the library parses but the integration does not support
REMOTE == "WoRemote"

CONNECTABLE_SUPPORTED_MODEL_TYPES ==
    [m \in {BOT, LOCK} |-> IF m = BOT THEN "bot" ELSE "lock"]

NON_CONNECTABLE_SUPPORTED_MODEL_TYPES == [m \in {METER} |-> "hygrometer"]

\* dict union a | b
Merge(a, b) ==
    [k \in (DOMAIN a) \cup (DOMAIN b) |-> IF k \in DOMAIN b THEN b[k] ELSE a[k]]

SUPPORTED_MODEL_TYPES ==
    Merge(CONNECTABLE_SUPPORTED_MODEL_TYPES, NON_CONNECTABLE_SUPPORTED_MODEL_TYPES)

ModelFriendlyName(m) ==
    CASE m = LOCK -> "Lock" [] m = BOT -> "Bot" [] m = METER -> "Meter"
      [] OTHER -> "Remote"

ParsedModels == {LOCK, BOT, METER, REMOTE}

(* --------------------- discovery events and candidates ---------------- *)

\* BluetoothServiceInfoBleak: what the radio reports.  parses = FALSE is an
\* advertisement parse_advertisement_data does not recognise.
ServiceInfos ==
    [address : Addresses, connectable : BOOLEAN, parses : {TRUE},
     modelName : ParsedModels, isEncrypted : BOOLEAN]
    \cup
    [address : Addresses, connectable : BOOLEAN, parses : {FALSE},
     modelName : {REMOTE}, isEncrypted : {FALSE}]

\* None for a SwitchBotAdvertisement
NoAdv == [address |-> << >>, modelName |-> "None", isEncrypted |-> FALSE,
          connectable |-> FALSE]

\* SwitchBotAdvertisement; connectable records the transport of the event it
\* was parsed from (the advertisement itself does not carry it)
parse_advertisement_data(info) ==
    IF info.parses
    THEN [address |-> info.address, modelName |-> info.modelName,
          isEncrypted |-> info.isEncrypted, connectable |-> info.connectable]
    ELSE NoAdv

name_from_discovery(discovery) ==
    <<ModelFriendlyName(discovery.modelName), " ">> \o short_address(discovery.address)

(* ------------------------------ dicts --------------------------------- *)

EmptyDict == [k \in {} |-> TRUE]

\* user_input = None
NoInput == [None |-> TRUE]

CONF_ADDRESS == "address"
CONF_SENSOR_TYPE == "sensor_type"
CONF_PASSWORD == "password"
CONF_USERNAME == "username"
CONF_KEY_ID == "key_id"
CONF_ENCRYPTION_KEY == "encryption_key"

(* ------------------------------ state --------------------------------- *)

VARIABLES
    entries,    \* the store: sequence of config entries [unique_id, title, data]
    flows       \* FlowIds -> the run's state

vars == <<entries, flows>>

\* None for a BluetoothServiceInfoBleak
NoInfo == [address |-> << >>, connectable |-> FALSE, parses |-> FALSE,
           modelName |-> "None", isEncrypted |-> FALSE]

\* a FlowResult before the step has returned
NoResult == [type |-> "none", step_id |-> "none", reason |-> "none",
             errors |-> {}, choices |-> EmptyDict, title |-> << >>,
             data |-> EmptyDict]

\* SwitchbotConfigFlow.__init__ plus the flow manager's bookkeeping
NewFlow ==
    [pc |-> "idle",                  \* idle | suspended | await_* | done | removed
     source |-> "none",              \* context["source"]
     unique_id |-> NoId,             \* context["unique_id"]
     cur_step |-> NoResult,          \* the form last rendered
     discovered_adv |-> NoAdv,       \* self._discovered_adv
     discovered_advs |-> EmptyDict,  \* self._discovered_advs
     result |-> NoResult,            \* what the last step returned
     pending |-> NoInput,            \* user_input of the step being awaited
     discovery_info |-> NoInfo,      \* history: the passive event of the run
     verified |-> "none",            \* history: what verify_encryption_key did in the last step
     credentials |-> NoInput,        \* history: the last input of async_step_lock_auth
     finalized |-> 0]                \* history: calls of the finalizer

Init ==
    /\ entries = << >>
    /\ flows = [f \in FlowIds |-> NewFlow]

(* -------------------- the host's flow manager and store --------------- *)

\* what a step sees of the host: the unique ids of the entries in the store
Hass ==
    [current_ids |-> {entries[i].unique_id : i \in 1 .. Len(entries)}]

\* self.async_abort(reason=...) and raise AbortFlow(reason)
async_abort(fl, reason) ==
    [fl EXCEPT !.result = [NoResult EXCEPT !.type = "abort", !.reason = reason]]

\* an exception that no handler of the step catches
Unhandled(fl, exc) ==
    [fl EXCEPT !.result = [NoResult EXCEPT !.type = "error", !.reason = exc]]

async_show_form(fl, step_id, errors, choices) ==
    [fl EXCEPT !.result = [NoResult EXCEPT !.type = "form", !.step_id = step_id,
                                           !.errors = errors, !.choices = choices]]

async_create_entry(fl, title, data) ==
    [fl EXCEPT !.result = [NoResult EXCEPT !.type = "create_entry",
                                           !.title = title, !.data = data]]

\* the step has raised or returned: nothing after it in the handler runs
Returned(fl) == fl.result.type # "none"

\* ConfigFlow.async_set_unique_id: the run takes the identity.  Runs are
\* isolated from each other, so raise_on_progress changes nothing here.
async_set_unique_id(fl, unique_id, raise_on_progress, hass) ==
    [fl EXCEPT !.unique_id = unique_id]

\* ConfigFlow._abort_if_unique_id_configured
abort_if_unique_id_configured(fl, hass) ==
    IF fl.unique_id # NoId /\ fl.unique_id \in hass.current_ids
    THEN async_abort(fl, "already_configured")
    ELSE fl

\* ConfigFlow._async_current_ids
async_current_ids(hass) == hass.current_ids

(* ----------------------------- the wizard ----------------------------- *)

\* the finalizer stores the address and the type and drops the submitted input
_async_create_entry_from_discovery_NoInput(fl, user_input) ==
    LET discovery == fl.discovered_adv
        fl1 == [fl EXCEPT !.finalized = @ + 1]
    IN  IF discovery = NoAdv THEN Unhandled(fl, "AssertionError")
        ELSE async_create_entry(fl1, name_from_discovery(discovery),
                 [address |-> discovery.address,
                  sensor_type |-> SUPPORTED_MODEL_TYPES[discovery.modelName]])

_async_create_entry_from_discovery(fl, user_input) ==
    LET discovery == fl.discovered_adv
        name == name_from_discovery(discovery)
        model_name == discovery.modelName
        fl1 == [fl EXCEPT !.finalized = @ + 1]
    IN  IF discovery = NoAdv THEN Unhandled(fl, "AssertionError")
        ELSE async_create_entry(fl1, name,
                 Merge(user_input,
                       [address |-> discovery.address,
                        sensor_type |-> SUPPORTED_MODEL_TYPES[model_name]]))

\* the confirm step calls the finalizer and goes on to render its form again
async_step_confirm_NoReturn(fl, user_input) ==
    IF fl.discovered_adv = NoAdv THEN Unhandled(fl, "AssertionError")
    ELSE IF user_input # NoInput
    THEN async_show_form(_async_create_entry_from_discovery(fl, user_input),
                         "confirm", {}, EmptyDict)
    ELSE async_show_form(fl, "confirm", {}, EmptyDict)

async_step_confirm(fl, user_input) ==
    IF fl.discovered_adv = NoAdv THEN Unhandled(fl, "AssertionError")
    ELSE IF user_input # NoInput THEN _async_create_entry_from_discovery(fl, user_input)
    ELSE async_show_form(fl, "confirm", {}, EmptyDict)

\* the password step calls the finalizer and goes on to render its form again
async_step_password_NoReturn(fl, user_input) ==
    IF fl.discovered_adv = NoAdv THEN Unhandled(fl, "AssertionError")
    ELSE IF user_input # NoInput
    THEN async_show_form(_async_create_entry_from_discovery(fl, user_input),
                         "password", {}, EmptyDict)
    ELSE async_show_form(fl, "password", {}, EmptyDict)

async_step_password(fl, user_input) ==
    IF fl.discovered_adv = NoAdv THEN Unhandled(fl, "AssertionError")
    ELSE IF user_input # NoInput THEN _async_create_entry_from_discovery(fl, user_input)
    ELSE async_show_form(fl, "password", {}, EmptyDict)

\* the two tests of async_step_bluetooth without the transport condition
PassiveEligible_SupportedOnly(discovery_info, model_name) ==
    model_name \in DOMAIN SUPPORTED_MODEL_TYPES

\* the two tests of async_step_bluetooth that a parsed event passes: both
\* failures abort with not_supported
PassiveEligible(discovery_info, model_name) ==
    /\ model_name \in DOMAIN SUPPORTED_MODEL_TYPES
    /\ ~(/\ ~discovery_info.connectable
         /\ model_name \in DOMAIN CONNECTABLE_SUPPORTED_MODEL_TYPES)

\* a discovered device that needs no input is finalized without the confirm form
async_step_bluetooth_NoConfirm(fl, discovery_info, hass) ==
    LET fl1 == async_set_unique_id(fl, format_unique_id(discovery_info.address),
                                   TRUE, hass)
        fl2 == abort_if_unique_id_configured(fl1, hass)
        parsed == parse_advertisement_data(discovery_info)
        model_name == parsed.modelName
        fl3 == [fl2 EXCEPT !.discovered_adv = parsed]
    IN  IF Returned(fl1) THEN fl1
        ELSE IF Returned(fl2) THEN fl2
        ELSE IF parsed = NoAdv \/ ~PassiveEligible(discovery_info, model_name)
        THEN async_abort(fl2, "not_supported")
        ELSE IF fl3.discovered_adv.isEncrypted
        THEN async_step_password(fl3, NoInput)
        ELSE _async_create_entry_from_discovery(fl3, EmptyDict)

\* the run takes the address as reported, not formatted, as its identity
async_step_bluetooth_RawIdentity(fl, discovery_info, hass) ==
    LET fl1 == async_set_unique_id(fl, discovery_info.address, TRUE, hass)
        fl2 == abort_if_unique_id_configured(fl1, hass)
        parsed == parse_advertisement_data(discovery_info)
        model_name == parsed.modelName
        fl3 == [fl2 EXCEPT !.discovered_adv = parsed]
    IN  IF Returned(fl1) THEN fl1
        ELSE IF Returned(fl2) THEN fl2
        ELSE IF parsed = NoAdv \/ ~PassiveEligible(discovery_info, model_name)
        THEN async_abort(fl2, "not_supported")
        ELSE IF fl3.discovered_adv.isEncrypted
        THEN async_step_password(fl3, NoInput)
        ELSE async_step_confirm(fl3, NoInput)

\* the type and transport tests come before the duplicate check
async_step_bluetooth_FilterFirst(fl, discovery_info, hass) ==
    LET fl1 == async_set_unique_id(fl, format_unique_id(discovery_info.address),
                                   TRUE, hass)
        parsed == parse_advertisement_data(discovery_info)
        model_name == parsed.modelName
        fl2 == abort_if_unique_id_configured(fl1, hass)
        fl3 == [fl2 EXCEPT !.discovered_adv = parsed]
    IN  IF Returned(fl1) THEN fl1
        ELSE IF parsed = NoAdv \/ ~PassiveEligible(discovery_info, model_name)
        THEN async_abort(fl1, "not_supported")
        ELSE IF Returned(fl2) THEN fl2
        ELSE IF fl3.discovered_adv.isEncrypted
        THEN async_step_password(fl3, NoInput)
        ELSE async_step_confirm(fl3, NoInput)

async_step_bluetooth(fl, discovery_info, hass) ==
    LET fl1 == async_set_unique_id(fl, format_unique_id(discovery_info.address),
                                   TRUE, hass)
        fl2 == abort_if_unique_id_configured(fl1, hass)
        parsed == parse_advertisement_data(discovery_info)
        model_name == parsed.modelName
        fl3 == [fl2 EXCEPT !.discovered_adv = parsed]
    IN  IF Returned(fl1) THEN fl1
        ELSE IF Returned(fl2) THEN fl2
        ELSE IF parsed = NoAdv \/ ~PassiveEligible(discovery_info, model_name)
        THEN async_abort(fl2, "not_supported")
        ELSE IF fl3.discovered_adv.isEncrypted
        THEN async_step_password(fl3, NoInput)
        ELSE async_step_confirm(fl3, NoInput)

(* ------------------------ active discovery ---------------------------- *)

\* One scan of the radio, as async_discovered_service_info reports it: the
\* history of the connectable scanners and the history of all scanners, at
\* most one event per address in each.  An address is seen by no scanner, by
\* connectable scanners only, by non-connectable scanners only, or by both
\* (the connectable history then holds it and the history of all scanners
\* holds its non-connectable event).
\* The devices a scan can show at an address.
DeviceProfiles(a) ==
    IF a = Addr1
    THEN {[parses |-> TRUE, modelName |-> LOCK, isEncrypted |-> TRUE],
          [parses |-> TRUE, modelName |-> BOT, isEncrypted |-> TRUE]}
    ELSE {[parses |-> TRUE, modelName |-> METER, isEncrypted |-> TRUE],
          [parses |-> TRUE, modelName |-> BOT, isEncrypted |-> FALSE]}

OtherProfiles ==
    {[parses |-> TRUE, modelName |-> REMOTE, isEncrypted |-> FALSE],
     [parses |-> FALSE, modelName |-> REMOTE, isEncrypted |-> FALSE]}

Sightings(a) ==
    {[seen |-> "no", parses |-> FALSE, modelName |-> REMOTE, isEncrypted |-> FALSE]}
    \cup
    {[seen |-> k, parses |-> p.parses, modelName |-> p.modelName,
      isEncrypted |-> p.isEncrypted] :
        k \in {"connectable", "non_connectable", "both"}, p \in DeviceProfiles(a)}
    \cup
    {[seen |-> "connectable", parses |-> p.parses, modelName |-> p.modelName,
      isEncrypted |-> p.isEncrypted] : p \in OtherProfiles}

Scans ==
    {s \in [Addresses -> UNION {Sightings(a) : a \in Addresses}] :
        \A a \in Addresses : s[a] \in Sightings(a)}


InfoOf(a, s, connectable) ==
    [address |-> a, connectable |-> connectable, parses |-> s.parses,
     modelName |-> s.modelName, isEncrypted |-> s.isEncrypted]

AddressOrder == <<Addr1, Addr2>>

\* async_discovered_service_info(hass, connectable), as a list
RECURSIVE HistoryFrom(_, _, _)
HistoryFrom(scan, connectable, i) ==
    IF i > Len(AddressOrder) THEN << >>
    ELSE LET a == AddressOrder[i]
             s == scan[a]
             here == IF connectable
                     THEN IF s.seen \in {"connectable", "both"}
                          THEN <<InfoOf(a, s, TRUE)>> ELSE << >>
                     ELSE IF s.seen = "no" THEN << >>
                          ELSE <<InfoOf(a, s, s.seen = "connectable")>>
         IN  here \o HistoryFrom(scan, connectable, i + 1)

async_discovered_service_info(scan, connectable) ==
    HistoryFrom(scan, connectable, 1)

\* the candidate filter without the transport condition
ActiveEligible_AnyTransport(discovery_info, model_name) ==
    model_name \in DOMAIN SUPPORTED_MODEL_TYPES

\* the candidate filter of _async_discover_devices
ActiveEligible(discovery_info, model_name) ==
    \/ /\ discovery_info.connectable
       /\ model_name \in DOMAIN CONNECTABLE_SUPPORTED_MODEL_TYPES
    \/ model_name \in DOMAIN NON_CONNECTABLE_SUPPORTED_MODEL_TYPES

\* the two nested loops of _async_discover_devices over the events
RECURSIVE DiscoverLoop(_, _, _)
DiscoverLoop(advs, infos, current_addresses) ==
    IF infos = << >> THEN advs
    ELSE LET discovery_info == Head(infos)
             address == discovery_info.address
             parsed == parse_advertisement_data(discovery_info)
             model_name == parsed.modelName
             next ==
                 IF \/ format_unique_id(address) \in current_addresses
                    \/ address \in DOMAIN advs
                 THEN advs
                 ELSE IF parsed = NoAdv THEN advs
                 ELSE IF ActiveEligible(discovery_info, model_name)
                 THEN Merge(advs, [a \in {address} |-> parsed])
                 ELSE advs
         IN  DiscoverLoop(next, Tail(infos), current_addresses)

\* discovery that goes on with an empty candidate map
_async_discover_devices_NoAbort(fl, scan, hass) ==
    LET current_addresses == async_current_ids(hass)
        advs == DiscoverLoop(fl.discovered_advs,
                             async_discovered_service_info(scan, TRUE)
                                 \o async_discovered_service_info(scan, FALSE),
                             current_addresses)
    IN  [fl EXCEPT !.discovered_advs = advs]

_async_discover_devices(fl, scan, hass) ==
    LET current_addresses == async_current_ids(hass)
        advs == DiscoverLoop(fl.discovered_advs,
                             async_discovered_service_info(scan, TRUE)
                                 \o async_discovered_service_info(scan, FALSE),
                             current_addresses)
        fl1 == [fl EXCEPT !.discovered_advs = advs]
    IN  IF DOMAIN advs = {} THEN async_abort(fl1, "no_unconfigured_devices")
        ELSE fl1

(* --------------------------- the lock steps --------------------------- *)

\* what the cloud does during one retrieve_lock_key call
AuthOutcomes == {"NotAuthorizedException", "Exception", "None",
                 "no_AuthenticationResult", "no_AccessToken", "ok"}
PostOutcomes == {"RequestException", "not_json", "no_statusCode",
                 "statusCode_not_100", "no_communicationKey", "ok"}

KeyBundles == {[key_id |-> "k1", encryption_key |-> "e1"],
               [key_id |-> "k2", encryption_key |-> "e2"]}

\* the call to the identity service fails, or it succeeds and the key-fetch
\* call fails, or both succeed and the service returns a bundle
Clouds ==
    [auth : AuthOutcomes \ {"ok"}, post : {"ok"}, key : {[key_id |-> "k1", encryption_key |-> "e1"]}]
    \cup
    [auth : {"ok"}, post : PostOutcomes \ {"ok"}, key : {[key_id |-> "k1", encryption_key |-> "e1"]}]
    \cup
    [auth : {"ok"}, post : {"ok"}, key : KeyBundles]

Credentials == {[username |-> "u1", password |-> "pw1"],
                [username |-> "u2", password |-> "pw2"]}

Passwords == {"pw1", "pw2"}

Raise(exc, msg) == [kind |-> "raise", exc |-> exc, msg |-> msg, value |-> EmptyDict]

\* retrieve_lock_key: an exception or the key bundle
retrieve_lock_key(device_mac, username, password, cloud) ==
    IF cloud.auth = "NotAuthorizedException"
    THEN Raise("RuntimeError", "Failed to authenticate")
    ELSE IF cloud.auth = "Exception"
    THEN Raise("RuntimeError", "Unexpected error during authentication")
    ELSE IF cloud.auth \in {"None", "no_AuthenticationResult", "no_AccessToken"}
    THEN Raise("RuntimeError", "Unexpected authentication response")
    ELSE IF cloud.post = "RequestException"
    THEN Raise("RequestException", "requests.post")
    ELSE IF cloud.post = "not_json"
    THEN Raise("ValueError", "json.loads")
    ELSE IF cloud.post = "no_statusCode"
    THEN Raise("KeyError", "statusCode")
    ELSE IF cloud.post = "statusCode_not_100"
    THEN Raise("RuntimeError", "Unexpected status code returned byt SwitchBot API")
    ELSE IF cloud.post = "no_communicationKey"
    THEN Raise("KeyError", "communicationKey")
    ELSE [kind |-> "return", exc |-> "none", msg |-> "none",
          value |-> [key_id |-> cloud.key.key_id,
                     encryption_key |-> cloud.key.encryption_key]]

\* what SwitchbotLock.verify_encryption_key does: a verdict or an exception
VerifyOutcomes == {"True", "False", "RuntimeError", "ValueError"}

\* the step is waiting for a call that runs off the event loop
Await(fl, call, user_input) ==
    [fl EXCEPT !.result = [NoResult EXCEPT !.type = "await", !.step_id = call],
               !.pending = user_input]

\* async_step_lock_key up to the await of verify_encryption_key
async_step_lock_key(fl, user_input, caller) ==
    IF fl.discovered_adv = NoAdv THEN Unhandled(fl, "AssertionError")
    ELSE IF user_input # NoInput
    THEN Await(fl, caller, user_input)
    ELSE async_show_form(fl, "lock_key", {}, EmptyDict)

\* the result of verify_encryption_key is not tested
lock_key_verified_NoTest(fl, verified) ==
    LET fl1 == [fl EXCEPT !.verified = verified]
    IN  IF verified \notin {"True", "False"} THEN Unhandled(fl1, verified)
        ELSE _async_create_entry_from_discovery(fl1, fl.pending)

\* async_step_lock_key from the return of verify_encryption_key
lock_key_verified(fl, verified) ==
    LET user_input == fl.pending
        fl1 == [fl EXCEPT !.verified = verified]
    IN  IF verified \notin {"True", "False"} THEN Unhandled(fl1, verified)
        ELSE IF verified = "False"
        THEN async_show_form(fl1, "lock_key",
                 {<<CONF_KEY_ID, "key_id_invalid">>,
                  <<CONF_ENCRYPTION_KEY, "encryption_key_invalid">>}, EmptyDict)
        ELSE _async_create_entry_from_discovery(fl1, user_input)

\* async_step_lock_auth up to the await of the executor job
async_step_lock_auth(fl, user_input) ==
    IF fl.discovered_adv = NoAdv THEN Unhandled(fl, "AssertionError")
    ELSE IF user_input # NoInput
    THEN Await([fl EXCEPT !.credentials = user_input],
               "lock_auth:retrieve_lock_key", user_input)
    ELSE async_show_form(fl, "lock_auth", {}, EmptyDict)

\* the failure sends the run back to the choice of the method
lock_auth_failed_ChoseMethod(fl) ==
    async_show_form(fl, "lock_chose_method", {<<CONF_USERNAME, "auth_failed">>},
                    EmptyDict)

\* the except RuntimeError clause of async_step_lock_auth and what follows it
lock_auth_failed(fl) ==
    async_show_form(fl, "lock_auth", {<<CONF_USERNAME, "auth_failed">>}, EmptyDict)

\* the submitted credentials, not the bundle, are handed to the key step
lock_auth_retrieved_PassesInput(fl, cloud) ==
    LET user_input == fl.pending
        key_details == retrieve_lock_key(fl.discovered_adv.address,
                                         user_input[CONF_USERNAME],
                                         user_input[CONF_PASSWORD], cloud)
    IN  IF key_details.kind = "return"
        THEN async_step_lock_key(fl, user_input, "lock_auth:verify_encryption_key")
        ELSE IF key_details.exc = "RuntimeError" THEN lock_auth_failed(fl)
        ELSE Unhandled(fl, key_details.exc)

\* the key step is handed the bundle together with the submitted credentials
lock_auth_retrieved_KeepsCredentials(fl, cloud) ==
    LET user_input == fl.pending
        key_details == retrieve_lock_key(fl.discovered_adv.address,
                                         user_input[CONF_USERNAME],
                                         user_input[CONF_PASSWORD], cloud)
    IN  IF key_details.kind = "return"
        THEN async_step_lock_key(fl, Merge(user_input, key_details.value),
                                 "lock_auth:verify_encryption_key")
        ELSE IF key_details.exc = "RuntimeError" THEN lock_auth_failed(fl)
        ELSE Unhandled(fl, key_details.exc)

\* async_step_lock_auth from the return of retrieve_lock_key
lock_auth_retrieved(fl, cloud) ==
    LET user_input == fl.pending
        key_details == retrieve_lock_key(fl.discovered_adv.address,
                                         user_input[CONF_USERNAME],
                                         user_input[CONF_PASSWORD], cloud)
    IN  IF key_details.kind = "return"
        THEN async_step_lock_key(fl, key_details.value,
                                 "lock_auth:verify_encryption_key")
        ELSE IF key_details.exc = "RuntimeError" THEN lock_auth_failed(fl)
        ELSE Unhandled(fl, key_details.exc)

\* async_step_lock_auth from the return of async_step_lock_key(key_details)
lock_auth_verified(fl, verified) ==
    LET fl1 == lock_key_verified(fl, verified)
    IN  IF fl1.result.type = "error" /\ fl1.result.reason = "RuntimeError"
        THEN lock_auth_failed(fl1)
        ELSE fl1

Methods == {"login_password", "encryption_key"}

async_step_lock_chose_method(fl, user_input) ==
    IF fl.discovered_adv = NoAdv THEN Unhandled(fl, "AssertionError")
    ELSE IF user_input # NoInput /\ user_input.method = "login_password"
    THEN async_step_lock_auth(fl, NoInput)
    ELSE IF user_input # NoInput /\ user_input.method = "encryption_key"
    THEN async_step_lock_key(fl, NoInput, "lock_key:verify_encryption_key")
    ELSE async_show_form(fl, "lock_chose_method", {}, EmptyDict)

\* the identity is taken and checked but the device is not assigned
_async_set_device_NoCandidate(fl, discovery, hass) ==
    LET address == discovery.address
        fl2 == async_set_unique_id(fl, format_unique_id(address), FALSE, hass)
    IN  IF Returned(fl2) THEN fl2 ELSE abort_if_unique_id_configured(fl2, hass)

\* the device is set without the duplicate check
_async_set_device_NoCheck(fl, discovery, hass) ==
    LET fl1 == [fl EXCEPT !.discovered_adv = discovery]
        address == discovery.address
    IN  async_set_unique_id(fl1, format_unique_id(address), FALSE, hass)

\* the device is set without giving the run its identity
_async_set_device_NoIdentity(fl, discovery, hass) ==
    LET fl1 == [fl EXCEPT !.discovered_adv = discovery]
    IN  abort_if_unique_id_configured(fl1, hass)

_async_set_device(fl, discovery, hass) ==
    LET fl1 == [fl EXCEPT !.discovered_adv = discovery]
        address == discovery.address
        fl2 == async_set_unique_id(fl1, format_unique_id(address), FALSE, hass)
    IN  IF Returned(fl2) THEN fl2 ELSE abort_if_unique_id_configured(fl2, hass)

\* the test for auto-selection, never true of a map that holds a candidate
SingleCandidate_Never(advs) == Cardinality(DOMAIN advs) = 0

\* len(self._discovered_advs) == 1
SingleCandidate(advs) == Cardinality(DOMAIN advs) = 1

async_step_user(fl, user_input, scan, hass) ==
    IF user_input # NoInput
    THEN IF user_input[CONF_ADDRESS] \notin DOMAIN fl.discovered_advs
         THEN Unhandled(fl, "KeyError")
         ELSE LET device_adv == fl.discovered_advs[user_input[CONF_ADDRESS]]
                  fl1 == _async_set_device(fl, device_adv, hass)
              IN  IF Returned(fl1) THEN fl1
                  ELSE IF device_adv.modelName = LOCK
                  THEN async_step_lock_chose_method(fl1, NoInput)
                  ELSE IF device_adv.isEncrypted
                  THEN async_step_password(fl1, NoInput)
                  ELSE _async_create_entry_from_discovery(fl1, user_input)
    ELSE LET fl1 == _async_discover_devices(fl, scan, hass)
         IN  IF Returned(fl1) THEN fl1
             ELSE IF SingleCandidate(fl1.discovered_advs)
             THEN LET device_adv ==
                          fl1.discovered_advs[CHOOSE a \in DOMAIN fl1.discovered_advs : TRUE]
                      fl2 == _async_set_device(fl1, device_adv, hass)
                  IN  IF Returned(fl2) THEN fl2
                      ELSE IF device_adv.modelName = LOCK
                      THEN async_step_lock_chose_method(fl2, NoInput)
                      ELSE IF device_adv.isEncrypted
                      THEN async_step_password(fl2, NoInput)
                      ELSE async_step_confirm(fl2, NoInput)
             ELSE async_show_form(fl1, "user", {},
                      [a \in DOMAIN fl1.discovered_advs |->
                          name_from_discovery(fl1.discovered_advs[a])])

(* ------------------- the flow manager drives the runs ------------------ *)

\* ConfigEntries.async_add for an entry that replaces one of the same identity
async_add(store, entry) ==
    SelectSeq(store, LAMBDA e : entry.unique_id = NoId \/ e.unique_id # entry.unique_id)
        \o <<entry>>

\* a run the host has abandoned: its transient state is discarded
Removed(fl) == [NewFlow EXCEPT !.pc = "removed", !.source = fl.source]

\* a step starts with no result yet
Enter(fl) == [fl EXCEPT !.result = NoResult, !.verified = "none"]

\* _async_handle_step once the handler fl has returned, raised or is waiting
HandleStep(f, fl) ==
    LET r == fl.result
    IN  CASE r.type = "await" ->
               /\ flows' = [flows EXCEPT ![f] = [fl EXCEPT !.pc = r.step_id]]
               /\ UNCHANGED entries
          [] r.type = "form" ->
               /\ flows' = [flows EXCEPT ![f] =
                               [fl EXCEPT !.pc = "suspended", !.cur_step = r,
                                          !.pending = NoInput]]
               /\ UNCHANGED entries
          [] r.type = "error" ->
               /\ flows' = [flows EXCEPT ![f] =
                               [fl EXCEPT !.pc = "suspended", !.pending = NoInput]]
               /\ UNCHANGED entries
          [] r.type = "abort" ->
               /\ flows' = [flows EXCEPT ![f] =
                               [fl EXCEPT !.pc = "done", !.pending = NoInput]]
               /\ UNCHANGED entries
          [] r.type = "create_entry" ->
               /\ entries' = async_add(entries,
                                 [unique_id |-> fl.unique_id, title |-> r.title,
                                  data |-> r.data])
               /\ flows' = [flows EXCEPT ![f] =
                               [fl EXCEPT !.pc = "done", !.pending = NoInput]]

\* the host starts the runs one after the other
MayStart(f) ==
    /\ flows[f].pc = "idle"
    /\ \A g \in FlowIds : g < f => flows[g].pc # "idle"

\* the host dispatches the step whose form was last rendered
MayDispatch(f, step_id) ==
    /\ flows[f].pc = "suspended"
    /\ flows[f].cur_step.step_id = step_id

\* a passive discovery event starts a run at async_step_bluetooth
BluetoothDiscovery(f, discovery_info) ==
    /\ MayStart(f)
    /\ HandleStep(f, async_step_bluetooth(
           [NewFlow EXCEPT !.source = "bluetooth", !.discovery_info = discovery_info],
           discovery_info, Hass))

\* the user starts a run at async_step_user
StartUser(f, scan) ==
    /\ MayStart(f)
    /\ HandleStep(f, async_step_user(
           [NewFlow EXCEPT !.source = "user"],
           NoInput, scan, Hass))

\* the user step is entered again without input
ReenterUser(f, scan) ==
    /\ MayDispatch(f, "user")
    /\ HandleStep(f, async_step_user(Enter(flows[f]), NoInput, scan, Hass))

\* the user picks one of the addresses the selection form offers
SubmitUser(f, address) ==
    /\ MayDispatch(f, "user")
    /\ address \in DOMAIN flows[f].cur_step.choices
    /\ HandleStep(f, async_step_user(Enter(flows[f]), [address |-> address],
                                     CHOOSE scan \in Scans : TRUE, Hass))

SubmitConfirm(f) ==
    /\ MayDispatch(f, "confirm")
    /\ HandleStep(f, async_step_confirm(Enter(flows[f]), EmptyDict))

SubmitPassword(f, password) ==
    /\ MayDispatch(f, "password")
    /\ HandleStep(f, async_step_password(Enter(flows[f]), [password |-> password]))

SubmitLockChoseMethod(f, method) ==
    /\ MayDispatch(f, "lock_chose_method")
    /\ HandleStep(f, async_step_lock_chose_method(Enter(flows[f]), [method |-> method]))

SubmitLockAuth(f, credentials) ==
    /\ MayDispatch(f, "lock_auth")
    /\ HandleStep(f, async_step_lock_auth(Enter(flows[f]), credentials))

\* the executor job of retrieve_lock_key is done
RetrieveLockKeyDone(f, cloud) ==
    /\ flows[f].pc = "lock_auth:retrieve_lock_key"
    /\ HandleStep(f, lock_auth_retrieved(Enter(flows[f]), cloud))

\* verify_encryption_key, called for the bundle of retrieve_lock_key, is done
VerifyRetrievedKeyDone(f, verified) ==
    /\ flows[f].pc = "lock_auth:verify_encryption_key"
    /\ HandleStep(f, lock_auth_verified(Enter(flows[f]), verified))

SubmitLockKey(f, keys) ==
    /\ MayDispatch(f, "lock_key")
    /\ HandleStep(f, async_step_lock_key(Enter(flows[f]), keys,
                                         "lock_key:verify_encryption_key"))

\* verify_encryption_key, called for the submitted pair, is done
VerifyKeyDone(f, verified) ==
    /\ flows[f].pc = "lock_key:verify_encryption_key"
    /\ HandleStep(f, lock_key_verified(Enter(flows[f]), verified))

\* the host abandons a run that waits for input
Abandon(f) ==
    /\ flows[f].pc = "suspended"
    /\ flows' = [flows EXCEPT ![f] = Removed(@)]
    /\ UNCHANGED entries

Next ==
    \E f \in FlowIds :
        \/ \E discovery_info \in ServiceInfos : BluetoothDiscovery(f, discovery_info)
        \/ \E scan \in Scans : StartUser(f, scan)
        \/ \E scan \in Scans : ReenterUser(f, scan)
        \/ \E address \in Addresses : SubmitUser(f, address)
        \/ SubmitConfirm(f)
        \/ \E password \in Passwords : SubmitPassword(f, password)
        \/ \E method \in Methods : SubmitLockChoseMethod(f, method)
        \/ \E credentials \in Credentials : SubmitLockAuth(f, credentials)
        \/ \E cloud \in Clouds : RetrieveLockKeyDone(f, cloud)
        \/ \E verified \in VerifyOutcomes : VerifyRetrievedKeyDone(f, verified)
        \/ \E keys \in KeyBundles : SubmitLockKey(f, keys)
        \/ \E verified \in VerifyOutcomes : VerifyKeyDone(f, verified)
        \/ Abandon(f)

Spec == Init /\ [][Next]_vars

(* ---------------------- the PurpleAir wizard --------------------------- *)

\* The sibling wizard, driven by a cloud API key and a search for sensors
\* near a place.  It runs in the same host: entries is the store of its
\* records (identity, title, data, options) and flows holds its runs, which
\* are initial runs, reauth runs and runs of the options sub-wizard.

\* the API keys and the sensor indices of the tests, as strings
TEST_API_KEY == <<"a", "b", "c", "d", "e", "1", "2", "3", "4", "5">>

NEW_API_KEY == <<"n", "e", "w", "_", "a", "p", "i", "_", "k", "e", "y">>

ApiKeys == {TEST_API_KEY, NEW_API_KEY}

SensorIndexStrings == {<<"1", "2", "3", "4", "5", "6">>,
                       <<"5", "6", "7", "8", "9", "0">>}

DigitValue(c) ==
    CASE c = "0" -> 0 [] c = "1" -> 1 [] c = "2" -> 2 [] c = "3" -> 3
      [] c = "4" -> 4 [] c = "5" -> 5 [] c = "6" -> 6 [] c = "7" -> 7
      [] c = "8" -> 8 [] c = "9" -> 9

\* int(s) for a string of digits
RECURSIVE ParseInt(_)
ParseInt(s) ==
    IF s = << >> THEN 0
    ELSE 10 * ParseInt(SubSeq(s, 1, Len(s) - 1)) + DigitValue(s[Len(s)])

\* str(n) for a sensor index, as the selection form offers it
IndexString(n) == CHOOSE s \in SensorIndexStrings : ParseInt(s) = n

SensorIndices == {ParseInt(s) : s \in SensorIndexStrings}

\* api.async_check_api_key: it returns or it raises
CheckOutcomes == {"ok", "InvalidApiKeyError", "PurpleAirError", "Exception"}

\* api.sensors.async_get_nearby_sensors: it raises or it returns the indices
\* of the sensors near the place, nearest first
NearbyOutcomes ==
    {[raises |-> e, sensors |-> << >>] : e \in {"PurpleAirError", "Exception"}}
    \cup
    {[raises |-> "none", sensors |-> l] :
        l \in {<< >>, <<123456>>, <<567890>>, <<567890, 123456>>}}

\* the place the user enters: latitude, longitude and distance
Coordinates == {[latitude |-> "51.5285582", longitude |-> "-0.2416796", distance |-> 5]}

PurpleAirNoResult ==
    [type |-> "none", step_id |-> "none", reason |-> "none", errors |-> {},
     choices |-> {}, title |-> << >>, data |-> EmptyDict, options |-> EmptyDict]

\* a run of the wizard: the flow handler's fields and the manager's bookkeeping
PurpleAirNewFlow ==
    [pc |-> "idle",               \* idle | suspended | done | removed
     source |-> "none",           \* user | reauth | options
     unique_id |-> NoId,          \* context["unique_id"]
     entry |-> NoId,              \* the record a reauth or options run is about
     cur_step |-> PurpleAirNoResult,   \* the form or menu last rendered
     flow_data |-> EmptyDict,     \* self._flow_data
     result |-> PurpleAirNoResult,
     called |-> "none",           \* the outcome of the collaborator call of the step
     retried |-> FALSE]           \* a form of the run was rendered again with an error

\* the record of the tests' fixture, as an initial run creates it, with the
\* options that sub-flows of earlier runs may have left
FixtureEntry(options) ==
    [unique_id |-> TEST_API_KEY, title |-> SubSeq(TEST_API_KEY, 1, 5),
     data |-> [api_key |-> TEST_API_KEY], options |-> options]

\* the store when the host starts: empty, or holding the record of earlier runs
InitialStores ==
    {<< >>,
     <<FixtureEntry([sensor_indices |-> <<123456>>])>>,
     <<FixtureEntry([last_update_sensor_add |-> TRUE,
                     sensor_indices |-> <<123456, 567890>>])>>}

PurpleAirInit ==
    /\ entries \in InitialStores
    /\ flows = [f \in FlowIds |-> PurpleAirNewFlow]

PurpleAir_async_abort(fl, reason) ==
    [fl EXCEPT !.result = [PurpleAirNoResult EXCEPT !.type = "abort",
                                                    !.reason = reason]]

PurpleAir_async_show_form(fl, step_id, errors, choices) ==
    [fl EXCEPT !.result = [PurpleAirNoResult EXCEPT !.type = "form",
                              !.step_id = step_id, !.errors = errors,
                              !.choices = choices]]

\* the menu of the options sub-wizard
PurpleAir_async_show_menu(fl, step_id, menu_options) ==
    [fl EXCEPT !.result = [PurpleAirNoResult EXCEPT !.type = "menu",
                              !.step_id = step_id, !.choices = menu_options]]

PurpleAir_async_create_entry(fl, title, data, options) ==
    [fl EXCEPT !.result = [PurpleAirNoResult EXCEPT !.type = "create_entry",
                              !.title = title, !.data = data,
                              !.options = options]]

\* the position of the record with this identity in the store, 0 if none
EntryIndex(store, unique_id) ==
    IF \E i \in 1 .. Len(store) : store[i].unique_id = unique_id
    THEN CHOOSE i \in 1 .. Len(store) : store[i].unique_id = unique_id
    ELSE 0

\* every failure of the check is reported as unknown
async_validate_api_key_AllUnknown(outcome) ==
    IF outcome = "ok" THEN {} ELSE {<<"base", "unknown">>}

\* the check of an API key: the error map of the form, empty when it is valid
async_validate_api_key(outcome) ==
    IF outcome = "ok" THEN {}
    ELSE IF outcome = "InvalidApiKeyError" THEN {<<"base", "invalid_api_key">>}
    ELSE {<<"base", "unknown">>}

\* the search near a place: the error map of the form, empty when it found
\* a sensor
async_validate_coordinates(nearby) ==
    IF nearby.raises # "none" THEN {<<"base", "unknown">>}
    ELSE IF nearby.sensors = << >> THEN {<<"base", "no_sensors_near_coordinates">>}
    ELSE {}

Range(seq) == {seq[i] : i \in 1 .. Len(seq)}

(* the initial run *)

PurpleAir_async_step_choose_sensor(fl, user_input) ==
    IF user_input = NoInput
    THEN PurpleAir_async_show_form(fl, "choose_sensor", {},
             {IndexString(n) : n \in Range(fl.flow_data.nearby)})
    ELSE PurpleAir_async_create_entry(fl,
             SubSeq(fl.flow_data.api_key, 1, 5),
             [api_key |-> fl.flow_data.api_key],
             [sensor_indices |-> <<ParseInt(user_input.sensor_index)>>])

PurpleAir_async_step_by_coordinates(fl, user_input, nearby) ==
    IF user_input = NoInput
    THEN PurpleAir_async_show_form(fl, "by_coordinates", {}, {})
    ELSE LET errors == async_validate_coordinates(nearby)
             fl1 == [fl EXCEPT !.called =
                        IF nearby.raises # "none" THEN nearby.raises
                        ELSE IF nearby.sensors = << >> THEN "empty" ELSE "ok"]
         IN  IF errors # {}
             THEN PurpleAir_async_show_form(fl1, "by_coordinates", errors, {})
             ELSE PurpleAir_async_step_choose_sensor(
                      [fl1 EXCEPT !.flow_data =
                          [api_key |-> fl.flow_data.api_key,
                           nearby |-> nearby.sensors]],
                      NoInput)

PurpleAir_async_step_user(fl, user_input, outcome, hass) ==
    IF user_input = NoInput
    THEN PurpleAir_async_show_form(fl, "user", {}, {})
    ELSE LET api_key == user_input.api_key
             fl1 == [fl EXCEPT !.unique_id = api_key]
             errors == async_validate_api_key(outcome)
             fl2 == [fl1 EXCEPT !.called = outcome]
         IN  IF api_key \in hass.current_ids
             THEN PurpleAir_async_abort(fl1, "already_configured")
             ELSE IF errors # {}
             THEN PurpleAir_async_show_form(fl2, "user", errors, {})
             ELSE PurpleAir_async_step_by_coordinates(
                      [fl2 EXCEPT !.flow_data = [api_key |-> api_key]],
                      NoInput, CHOOSE n \in NearbyOutcomes : TRUE)

(* the reauth run *)

\* a valid key ends the reauth run with a new record
PurpleAir_async_step_reauth_confirm_Creates(fl, user_input, outcome) ==
    IF user_input = NoInput
    THEN PurpleAir_async_show_form(fl, "reauth_confirm", {}, {})
    ELSE LET errors == async_validate_api_key(outcome)
             fl1 == [fl EXCEPT !.called = outcome, !.unique_id = user_input.api_key]
         IN  IF errors # {}
             THEN PurpleAir_async_show_form(fl1, "reauth_confirm", errors, {})
             ELSE PurpleAir_async_create_entry(fl1, SubSeq(user_input.api_key, 1, 5),
                      [api_key |-> user_input.api_key], EmptyDict)

\* the key is checked; a valid key replaces the data of the record
PurpleAir_async_step_reauth_confirm(fl, user_input, outcome) ==
    IF user_input = NoInput
    THEN PurpleAir_async_show_form(fl, "reauth_confirm", {}, {})
    ELSE LET errors == async_validate_api_key(outcome)
             fl1 == [fl EXCEPT !.called = outcome]
         IN  IF errors # {}
             THEN PurpleAir_async_show_form(fl1, "reauth_confirm", errors, {})
             ELSE [PurpleAir_async_abort(fl1, "reauth_successful")
                      EXCEPT !.result.data = [api_key |-> user_input.api_key]]

PurpleAir_async_step_reauth(fl, unique_id) ==
    PurpleAir_async_step_reauth_confirm([fl EXCEPT !.entry = unique_id],
                                        NoInput, "ok")

(* the options sub-wizard *)

\* the registry's device of a sensor, and the sensor of a device
DeviceOf(sensor_index) == <<"device", sensor_index>>

SensorOf(sensor_device_id) == sensor_device_id[2]

PurpleAir_async_step_init(fl) ==
    PurpleAir_async_show_menu(fl, "init", {"add_sensor", "remove_sensor"})

\* the chosen sensor is appended without the test for a duplicate
PurpleAir_options_choose_sensor_NoDuplicateTest(fl, user_input, config_entry) ==
    IF user_input = NoInput
    THEN PurpleAir_async_show_form(fl, "choose_sensor", {},
             {IndexString(n) : n \in Range(fl.flow_data.nearby)})
    ELSE PurpleAir_async_create_entry(fl, << >>,
             [last_update_sensor_add |-> TRUE,
              sensor_indices |-> Append(config_entry.options.sensor_indices,
                                        ParseInt(user_input.sensor_index))],
             EmptyDict)

\* the chosen sensor is put at the head of the list
PurpleAir_options_choose_sensor_Prepends(fl, user_input, config_entry) ==
    LET sensor_index == ParseInt(user_input.sensor_index)
    IN  IF user_input = NoInput
        THEN PurpleAir_async_show_form(fl, "choose_sensor", {},
                 {IndexString(n) : n \in Range(fl.flow_data.nearby)})
        ELSE IF sensor_index \in Range(config_entry.options.sensor_indices)
        THEN PurpleAir_async_abort(fl, "already_configured")
        ELSE PurpleAir_async_create_entry(fl, << >>,
                 [last_update_sensor_add |-> TRUE,
                  sensor_indices |-> <<sensor_index>>
                                         \o config_entry.options.sensor_indices],
                 EmptyDict)

PurpleAir_options_choose_sensor(fl, user_input, config_entry) ==
    LET sensor_index == ParseInt(user_input.sensor_index)
    IN  IF user_input = NoInput
        THEN PurpleAir_async_show_form(fl, "choose_sensor", {},
                 {IndexString(n) : n \in Range(fl.flow_data.nearby)})
        ELSE IF sensor_index \in Range(config_entry.options.sensor_indices)
        THEN PurpleAir_async_abort(fl, "already_configured")
        ELSE PurpleAir_async_create_entry(fl, << >>,
                 [last_update_sensor_add |-> TRUE,
                  sensor_indices |-> Append(config_entry.options.sensor_indices,
                                            sensor_index)],
                 EmptyDict)

PurpleAir_async_step_add_sensor(fl, user_input, nearby, config_entry) ==
    IF user_input = NoInput
    THEN PurpleAir_async_show_form(fl, "add_sensor", {}, {})
    ELSE LET errors == async_validate_coordinates(nearby)
             fl1 == [fl EXCEPT !.called =
                        IF nearby.raises # "none" THEN nearby.raises
                        ELSE IF nearby.sensors = << >> THEN "empty" ELSE "ok"]
         IN  IF errors # {}
             THEN PurpleAir_async_show_form(fl1, "add_sensor", errors, {})
             ELSE PurpleAir_options_choose_sensor(
                      [fl1 EXCEPT !.flow_data = [nearby |-> nearby.sensors]],
                      NoInput, config_entry)

PurpleAir_async_step_remove_sensor(fl, user_input, config_entry) ==
    IF user_input = NoInput
    THEN PurpleAir_async_show_form(fl, "remove_sensor", {},
             {DeviceOf(n) : n \in Range(config_entry.options.sensor_indices)})
    ELSE LET removed_sensor_index == SensorOf(user_input.sensor_device_id)
         IN  PurpleAir_async_create_entry(fl, << >>,
                 [last_update_sensor_add |-> FALSE,
                  sensor_indices |->
                      SelectSeq(config_entry.options.sensor_indices,
                                LAMBDA n : n # removed_sensor_index)],
                 EmptyDict)

(* the host drives the runs of the PurpleAir wizard *)

\* the record a reauth or options run is about
ConfigEntryOf(fl) == entries[EntryIndex(entries, fl.entry)]

\* a step starts with no result and no collaborator called yet
PurpleAirEnter(fl) == [fl EXCEPT !.result = PurpleAirNoResult, !.called = "none"]

\* the flow manager once the handler has returned: a form or a menu suspends
\* the run; an abort ends it, after a reauth run has replaced the data of its
\* record; a created entry ends it, added to the store by an initial run and
\* written as the options of its record by an options run
PurpleAirHandleStep(f, fl) ==
    LET r == fl.result
        i == EntryIndex(entries, fl.entry)
    IN  CASE r.type \in {"form", "menu"} ->
               /\ flows' = [flows EXCEPT ![f] =
                               [fl EXCEPT !.pc = "suspended", !.cur_step = r,
                                          !.retried = @ \/ r.errors # {}]]
               /\ UNCHANGED entries
          [] r.type = "abort" ->
               /\ flows' = [flows EXCEPT ![f] = [fl EXCEPT !.pc = "done"]]
               /\ entries' = IF r.reason = "reauth_successful"
                             THEN [entries EXCEPT ![i].data = r.data]
                             ELSE entries
          [] r.type = "create_entry" ->
               /\ flows' = [flows EXCEPT ![f] = [fl EXCEPT !.pc = "done"]]
               /\ entries' = IF fl.source = "options"
                             THEN [entries EXCEPT ![i].options = r.data]
                             ELSE async_add(entries,
                                      [unique_id |-> fl.unique_id, title |-> r.title,
                                       data |-> r.data, options |-> r.options])

\* the host starts the runs one after the other
PurpleAirMayStart(f) ==
    /\ flows[f].pc = "idle"
    /\ \A g \in FlowIds : g < f => flows[g].pc # "idle"

PurpleAirMayDispatch(f, source, step_id) ==
    /\ flows[f].pc = "suspended"
    /\ flows[f].source = source
    /\ flows[f].cur_step.step_id = step_id

PurpleAirStartUser(f) ==
    /\ PurpleAirMayStart(f)
    /\ PurpleAirHandleStep(f, PurpleAir_async_step_user(
           [PurpleAirNewFlow EXCEPT !.source = "user"], NoInput, "ok", Hass))

PurpleAirSubmitUser(f, api_key, outcome) ==
    /\ PurpleAirMayDispatch(f, "user", "user")
    /\ PurpleAirHandleStep(f, PurpleAir_async_step_user(
           PurpleAirEnter(flows[f]), [api_key |-> api_key], outcome, Hass))

PurpleAirSubmitByCoordinates(f, coordinates, nearby) ==
    /\ PurpleAirMayDispatch(f, "user", "by_coordinates")
    /\ PurpleAirHandleStep(f, PurpleAir_async_step_by_coordinates(
           PurpleAirEnter(flows[f]), coordinates, nearby))

PurpleAirSubmitChooseSensor(f, sensor_index) ==
    /\ PurpleAirMayDispatch(f, "user", "choose_sensor")
    /\ sensor_index \in flows[f].cur_step.choices
    /\ PurpleAirHandleStep(f, PurpleAir_async_step_choose_sensor(
           PurpleAirEnter(flows[f]), [sensor_index |-> sensor_index]))

\* the host asks for the key of a record again
PurpleAirStartReauth(f, i) ==
    /\ PurpleAirMayStart(f)
    /\ i \in 1 .. Len(entries)
    /\ PurpleAirHandleStep(f, PurpleAir_async_step_reauth(
           [PurpleAirNewFlow EXCEPT !.source = "reauth",
                                    !.unique_id = entries[i].unique_id],
           entries[i].unique_id))

PurpleAirSubmitReauthConfirm(f, api_key, outcome) ==
    /\ PurpleAirMayDispatch(f, "reauth", "reauth_confirm")
    /\ PurpleAirHandleStep(f, PurpleAir_async_step_reauth_confirm(
           PurpleAirEnter(flows[f]), [api_key |-> api_key], outcome))

\* the user opens the options of a record
PurpleAirStartOptions(f, i) ==
    /\ PurpleAirMayStart(f)
    /\ i \in 1 .. Len(entries)
    /\ PurpleAirHandleStep(f, PurpleAir_async_step_init(
           [PurpleAirNewFlow EXCEPT !.source = "options",
                                    !.entry = entries[i].unique_id]))

\* the user picks a sub-flow of the menu: its step is entered without input
PurpleAirChooseMenu(f, next_step_id) ==
    /\ PurpleAirMayDispatch(f, "options", "init")
    /\ next_step_id \in flows[f].cur_step.choices
    /\ PurpleAirHandleStep(f,
           IF next_step_id = "add_sensor"
           THEN PurpleAir_async_step_add_sensor(
                    PurpleAirEnter(flows[f]), NoInput,
                    CHOOSE n \in NearbyOutcomes : TRUE, ConfigEntryOf(flows[f]))
           ELSE PurpleAir_async_step_remove_sensor(
                    PurpleAirEnter(flows[f]), NoInput, ConfigEntryOf(flows[f])))

PurpleAirSubmitAddSensor(f, coordinates, nearby) ==
    /\ PurpleAirMayDispatch(f, "options", "add_sensor")
    /\ PurpleAirHandleStep(f, PurpleAir_async_step_add_sensor(
           PurpleAirEnter(flows[f]), coordinates, nearby, ConfigEntryOf(flows[f])))

PurpleAirSubmitOptionsChooseSensor(f, sensor_index) ==
    /\ PurpleAirMayDispatch(f, "options", "choose_sensor")
    /\ sensor_index \in flows[f].cur_step.choices
    /\ PurpleAirHandleStep(f, PurpleAir_options_choose_sensor(
           PurpleAirEnter(flows[f]), [sensor_index |-> sensor_index],
           ConfigEntryOf(flows[f])))

PurpleAirSubmitRemoveSensor(f, sensor_device_id) ==
    /\ PurpleAirMayDispatch(f, "options", "remove_sensor")
    /\ sensor_device_id \in flows[f].cur_step.choices
    /\ PurpleAirHandleStep(f, PurpleAir_async_step_remove_sensor(
           PurpleAirEnter(flows[f]), [sensor_device_id |-> sensor_device_id],
           ConfigEntryOf(flows[f])))

\* the host abandons a run that waits for input
PurpleAirAbandon(f) ==
    /\ flows[f].pc = "suspended"
    /\ flows' = [flows EXCEPT ![f] =
                    [PurpleAirNewFlow EXCEPT !.pc = "removed",
                                             !.source = flows[f].source]]
    /\ UNCHANGED entries

PurpleAirNext ==
    \E f \in FlowIds :
        \/ PurpleAirStartUser(f)
        \/ \E api_key \in ApiKeys, outcome \in CheckOutcomes :
               PurpleAirSubmitUser(f, api_key, outcome)
        \/ \E coordinates \in Coordinates, nearby \in NearbyOutcomes :
               PurpleAirSubmitByCoordinates(f, coordinates, nearby)
        \/ \E sensor_index \in SensorIndexStrings :
               PurpleAirSubmitChooseSensor(f, sensor_index)
        \/ \E i \in 1 .. Len(entries) : PurpleAirStartReauth(f, i)
        \/ \E api_key \in ApiKeys, outcome \in CheckOutcomes :
               PurpleAirSubmitReauthConfirm(f, api_key, outcome)
        \/ \E i \in 1 .. Len(entries) : PurpleAirStartOptions(f, i)
        \/ \E next_step_id \in {"add_sensor", "remove_sensor"} :
               PurpleAirChooseMenu(f, next_step_id)
        \/ \E coordinates \in Coordinates, nearby \in NearbyOutcomes :
               PurpleAirSubmitAddSensor(f, coordinates, nearby)
        \/ \E sensor_index \in SensorIndexStrings :
               PurpleAirSubmitOptionsChooseSensor(f, sensor_index)
        \/ \E sensor_device_id \in {DeviceOf(n) : n \in SensorIndices} :
               PurpleAirSubmitRemoveSensor(f, sensor_device_id)
        \/ PurpleAirAbandon(f)

PurpleAirSpec == PurpleAirInit /\ [][PurpleAirNext]_vars

(* ------------------------------ claims -------------------------------- *)

Started(f) == flows[f].pc # "idle"

Ended(f, type) == flows[f].pc = "done" /\ flows[f].result.type = type

Aborted(f, reason) == Ended(f, "abort") /\ flows[f].result.reason = reason

CurrentIds == {entries[i].unique_id : i \in 1 .. Len(entries)}

\* a connectable-required model reported over a non-connectable transport
OffTransport(x) ==
    /\ x.modelName \in DOMAIN CONNECTABLE_SUPPORTED_MODEL_TYPES
    /\ ~x.connectable

C1_NoCandidate(f) ==
    /\ ~OffTransport(flows[f].discovered_adv)
    /\ \A a \in DOMAIN flows[f].discovered_advs :
           ~OffTransport(flows[f].discovered_advs[a])
    /\ OffTransport(flows[f].discovery_info) =>
           /\ flows[f].discovered_adv = NoAdv
           /\ flows[f].discovered_advs = EmptyDict
           /\ flows[f].cur_step = NoResult
           /\ flows[f].finalized = 0
           /\ Ended(f, "abort")

\* the reason of the abort of a passive run started from an off-transport event
C1_PassiveAbort(f) ==
    (flows[f].pc = "idle" /\ OffTransport(flows'[f].discovery_info)) =>
        LET unique_id == format_unique_id(flows'[f].discovery_info.address)
        IN  /\ entries' = entries
            /\ flows'[f].result.reason =
                   IF unique_id \in CurrentIds THEN "already_configured"
                   ELSE "not_supported"

\* C1 as stated: an event of a connectable-required model from a
\* non-connectable source is never the selected candidate, never in the
\* candidate map, no run started from it renders a form or creates a record,
\* and the passive entry aborts with not_supported.
C1_Original ==
    \A f \in FlowIds :
        /\ C1_NoCandidate(f)
        /\ OffTransport(flows[f].discovery_info) => Aborted(f, "not_supported")

\* C1 amended: as C1, but the passive entry aborts with not_supported only
\* when the identity check that runs before the filter lets the event pass;
\* an event whose identity is already configured aborts with already_configured.
C1_TransportRule ==
    /\ [](\A f \in FlowIds : C1_NoCandidate(f))
    /\ [][\A f \in FlowIds : C1_PassiveAbort(f)]_vars

\* a passive run started from an off-transport event was aborted as not supported
C1_Witness ==
    \E f \in FlowIds :
        /\ OffTransport(flows[f].discovery_info)
        /\ Aborted(f, "not_supported")

\* the step of run f in which its identity becomes known
C2_IdentityKnown(f) ==
    \/ flows[f].unique_id = NoId /\ flows'[f].unique_id # NoId
    \/ flows[f].pc = "idle" /\ flows'[f].source = "bluetooth"

C2_IdentityOf(f) ==
    IF flows'[f].source = "bluetooth"
    THEN format_unique_id(flows'[f].discovery_info.address)
    ELSE flows'[f].unique_id

\* C2: once a record with identity X is in the store, a run that reaches the
\* point where X becomes known (passive entry, auto-select, selection from
\* the form) aborts with already_configured and creates no record.
C2_DuplicateAborts ==
    [][\A f \in FlowIds :
          (C2_IdentityKnown(f) /\ C2_IdentityOf(f) \in CurrentIds) =>
              /\ flows'[f].pc = "done"
              /\ flows'[f].result.type = "abort"
              /\ flows'[f].result.reason = "already_configured"
              /\ flows'[f].finalized = 0
              /\ entries' = entries]_vars

\* a run that had rendered the selection form was aborted as a duplicate
C2_Witness ==
    \E f \in FlowIds :
        /\ Aborted(f, "already_configured")
        /\ flows[f].source = "user"
        /\ flows[f].cur_step.step_id = "user"

\* a record is whole: identity, title, address and the type of its model
C3_Complete(e) ==
    /\ e.unique_id # NoId
    /\ e.title # << >>
    /\ {CONF_ADDRESS, CONF_SENSOR_TYPE} \subseteq DOMAIN e.data
    /\ e.unique_id = format_unique_id(e.data[CONF_ADDRESS])
    /\ \E m \in DOMAIN SUPPORTED_MODEL_TYPES :
           e.data[CONF_SENSOR_TYPE] = SUPPORTED_MODEL_TYPES[m]

\* C3: under any interleaving of runs that target the same identity, the
\* store never holds two records with the same identity nor a partial record.
C3_UniqueRecords ==
    /\ \A i, j \in 1 .. Len(entries) :
           i # j => entries[i].unique_id # entries[j].unique_id
    /\ \A i \in 1 .. Len(entries) : C3_Complete(entries[i])

\* two runs with the same identity both finalized; the store holds one record
C3_Witness ==
    \E f, g \in FlowIds :
        /\ f # g
        /\ Ended(f, "create_entry")
        /\ Ended(g, "create_entry")
        /\ flows[f].unique_id = flows[g].unique_id
        /\ Len(entries) = 1

\* C4: a run invokes the finalizer at most once, exactly once when it ends
\* in success and never when it ends in abort, whatever was submitted before.
C4_FinalizerOnce ==
    \A f \in FlowIds :
        /\ flows[f].finalized <= 1
        /\ Ended(f, "create_entry") => flows[f].finalized = 1
        /\ Ended(f, "abort") => flows[f].finalized = 0
        /\ flows[f].pc = "removed" => flows[f].finalized = 0
        /\ flows[f].finalized = 1 => flows[f].result.type = "create_entry"

\* a run ended in success after a submission that had failed
C4_Witness ==
    \E f \in FlowIds :
        /\ Ended(f, "create_entry")
        /\ flows[f].finalized = 1
        /\ flows[f].cur_step.errors # {}

LockSteps == {"lock_chose_method", "lock_auth", "lock_key"}

\* C5: a candidate that is a lock is routed to lock_chose_method on each of
\* the three entry paths, never to password or confirm, and no lock record is
\* created without the lock steps.
C5_LockChoosesMethod ==
    \A f \in FlowIds :
        flows[f].discovered_adv.modelName = LOCK =>
            /\ flows[f].pc = "suspended" => flows[f].cur_step.step_id \in LockSteps
            /\ Ended(f, "create_entry") => flows[f].cur_step.step_id \in LockSteps

\* C6: no failure of an external validation call escapes its step as an
\* unhandled error.
C6_FailuresCaught ==
    \A f \in FlowIds : flows[f].result.type # "error"

\* the error map lock_auth renders when the cloud behaves as cloud
C7_ErrorsOf(f, cloud) == lock_auth_retrieved(Enter(flows[f]), cloud).result.errors

\* C7: a rejection of the credentials by the identity service and any other
\* failure of the resolver never render the same error map on lock_auth.
C7_DistinctErrors ==
    \A f \in FlowIds :
        flows[f].pc = "lock_auth:retrieve_lock_key" =>
            \A rejected, other \in Clouds :
                (/\ rejected.auth = "NotAuthorizedException"
                 /\ other.auth # "NotAuthorizedException"
                 /\ retrieve_lock_key(flows[f].discovered_adv.address, "u", "p",
                                      other).kind = "raise")
                => C7_ErrorsOf(f, rejected) # C7_ErrorsOf(f, other)

\* the record of run f holds the bundle the resolver returned, and nothing
\* else but the address and the type of the lock
C8_Finalized(f) ==
    LET data == [key_id |-> flows[f].pending[CONF_KEY_ID],
                 encryption_key |-> flows[f].pending[CONF_ENCRYPTION_KEY],
                 address |-> flows[f].discovered_adv.address,
                 sensor_type |-> "lock"]
    IN  /\ flows'[f].pc = "done"
        /\ flows'[f].result.type = "create_entry"
        /\ flows'[f].result.data = data
        /\ flows'[f].cur_step = flows[f].cur_step
        /\ \E i \in 1 .. Len(entries') :
               /\ entries'[i].data = data
               /\ entries'[i].unique_id = flows[f].unique_id

\* the step of run f that ends the wait for the verification of the bundle
C8_BundleSettled(f) ==
    /\ flows[f].pc = "lock_auth:verify_encryption_key"
    /\ flows'[f].pc # flows[f].pc

\* what the resolver returned is what the run waits to have verified
C8_BundleKept(f) ==
    (/\ flows[f].pc = "lock_auth:retrieve_lock_key"
     /\ flows'[f].pc = "lock_auth:verify_encryption_key")
    => flows'[f].pending \in KeyBundles

C8_NotFinalized(f) ==
    /\ entries' = entries
    /\ flows'[f].finalized = 0
    /\ flows'[f].pc = "suspended"
    /\ flows'[f].verified = "False" =>
           /\ flows'[f].cur_step.step_id = "lock_key"
           /\ flows'[f].cur_step.errors =
                  {<<CONF_KEY_ID, "key_id_invalid">>,
                   <<CONF_ENCRYPTION_KEY, "encryption_key_invalid">>}

C9_BranchStep(adv) ==
    IF adv.modelName = LOCK THEN "lock_chose_method"
    ELSE IF adv.isEncrypted THEN "password"
    ELSE "confirm"

\* the selection form is on screen only with two candidates or more, and it
\* lists every candidate of the map
C9_FormListsAll(f) ==
    (flows[f].pc = "suspended" /\ flows[f].cur_step.step_id = "user") =>
        /\ Cardinality(DOMAIN flows[f].discovered_advs) >= 2
        /\ DOMAIN flows[f].cur_step.choices = DOMAIN flows[f].discovered_advs
        /\ \A a \in DOMAIN flows[f].discovered_advs :
               flows[f].cur_step.choices[a] =
                   name_from_discovery(flows[f].discovered_advs[a])
        /\ flows[f].discovered_adv = NoAdv
        /\ flows[f].unique_id = NoId

\* the user step that runs discovery, with one candidate and with more
C9_DiscoverStep(f) ==
    (flows[f].pc = "idle" /\ flows'[f].source = "user") =>
        LET advs == flows'[f].discovered_advs
            n == Cardinality(DOMAIN advs)
            adv == advs[CHOOSE a \in DOMAIN advs : TRUE]
        IN  /\ n = 1 =>
                /\ flows'[f].pc = "suspended"
                /\ flows'[f].result.type = "form"
                /\ flows'[f].result.step_id = C9_BranchStep(adv)
                /\ flows'[f].discovered_adv = adv
                /\ flows'[f].unique_id = format_unique_id(adv.address)
                /\ entries' = entries
            /\ n >= 2 =>
                /\ flows'[f].pc = "suspended"
                /\ flows'[f].result.type = "form"
                /\ flows'[f].result.step_id = "user"

\* C9: with exactly one candidate in the map the user step renders no
\* selection form: it selects the candidate, checks it for a duplicate and
\* renders the form of the branch decision; with two or more it renders the
\* selection form with every candidate of the map.
C9_AutoSelect ==
    /\ [](\A f \in FlowIds : C9_FormListsAll(f))
    /\ [][\A f \in FlowIds : C9_DiscoverStep(f)]_vars

\* a user run with one candidate waits at the form of its branch
C9_Witness ==
    \E f \in FlowIds :
        /\ flows[f].source = "user"
        /\ Cardinality(DOMAIN flows[f].discovered_advs) = 1
        /\ flows[f].pc = "suspended"
        /\ flows[f].cur_step.step_id = "lock_chose_method"

\* a user run whose discovery left the candidate map empty
C10_NoCandidates(f) ==
    /\ flows[f].source = "user"
    /\ flows[f].pc \notin {"idle", "removed"}
    /\ DOMAIN flows[f].discovered_advs = {}

\* C10 as stated: with zero eligible candidates the run aborts at once with
\* reason no_candidates, renders no form and creates no record.
C10_Original ==
    \A f \in FlowIds :
        C10_NoCandidates(f) =>
            /\ Aborted(f, "no_candidates")
            /\ flows[f].cur_step = NoResult
            /\ flows[f].finalized = 0

\* C10 amended: with zero eligible candidates the run aborts at once with
\* reason no_unconfigured_devices, renders no form and creates no record.
C10_NoDevicesAborts ==
    \A f \in FlowIds :
        C10_NoCandidates(f) =>
            /\ Aborted(f, "no_unconfigured_devices")
            /\ flows[f].cur_step = NoResult
            /\ flows[f].finalized = 0

\* a user run that started after a record was created found no candidate
C10_Witness ==
    \E f \in FlowIds :
        /\ C10_NoCandidates(f)
        /\ Aborted(f, "no_unconfigured_devices")
        /\ Len(entries) >= 1

\* the encrypted candidates of run f that are not locks
C11_Encrypted(fl) ==
    {a \in DOMAIN fl.discovered_advs :
        /\ fl.discovered_advs[a].isEncrypted
        /\ fl.discovered_advs[a].modelName # LOCK}

\* discovery left two or more encrypted candidates that are not locks: the
\* selection form lists every candidate
C11_FormRendered(f) ==
    (/\ flows[f].pc = "idle"
     /\ flows'[f].source = "user"
     /\ Cardinality(C11_Encrypted(flows'[f])) >= 2)
    => /\ flows'[f].pc = "suspended"
       /\ flows'[f].cur_step.step_id = "user"
       /\ DOMAIN flows'[f].cur_step.choices = DOMAIN flows'[f].discovered_advs

\* the step of run f that selects one of these candidates from the form
C11_Selects(f) ==
    /\ MayDispatch(f, "user")
    /\ Cardinality(C11_Encrypted(flows[f])) >= 2
    /\ flows'[f].discovered_adv # NoAdv
    /\ flows'[f].discovered_adv.address \in C11_Encrypted(flows[f])

C11_PasswordForm(f) ==
    /\ flows'[f].pc = "suspended"
    /\ flows'[f].cur_step.step_id = "password"
    /\ flows'[f].cur_step.errors = {}
    /\ flows'[f].discovered_adv =
           flows[f].discovered_advs[flows'[f].discovered_adv.address]
    /\ entries' = entries

\* the record a password makes of the selected candidate
C11_DataOf(fl, password) ==
    [password |-> password,
     address |-> fl.discovered_adv.address,
     sensor_type |-> SUPPORTED_MODEL_TYPES[fl.discovered_adv.modelName]]

\* the step of run f that submits a password for a selected candidate
C11_Submits(f) ==
    /\ MayDispatch(f, "password")
    /\ flows[f].source = "user"
    /\ Cardinality(C11_Encrypted(flows[f])) >= 2
    /\ flows'[f] # flows[f]
    /\ flows'[f].pc # "removed"

\* any password ends the run in success at once, with the record of the
\* selected candidate
C11_Success(f) ==
    /\ \A password \in Passwords :
           LET r == async_step_password(Enter(flows[f]),
                                        [password |-> password]).result
           IN  /\ r.type = "create_entry"
               /\ r.data = C11_DataOf(flows[f], password)
    /\ flows'[f].pc = "done"
    /\ flows'[f].result.type = "create_entry"
    /\ \E password \in Passwords :
           /\ flows'[f].result.data = C11_DataOf(flows[f], password)
           /\ \E i \in 1 .. Len(entries') :
                  /\ entries'[i].data = C11_DataOf(flows[f], password)
                  /\ entries'[i].unique_id =
                         format_unique_id(flows[f].discovered_adv.address)

\* C11 as stated: with two or more encrypted candidates that are not locks
\* the selection form lists them all, selecting any one renders the password
\* form, and any password submitted there ends the run in success, without
\* external validation, with a record whose data is exactly the password, the
\* address of the selected candidate and the sensor type of its model.
C11_Original ==
    [][\A f \in FlowIds :
          /\ C11_FormRendered(f)
          /\ C11_Selects(f) => C11_PasswordForm(f)
          /\ C11_Submits(f) => C11_Success(f)]_vars

\* C11 amended: as C11, but selecting a candidate renders the password form
\* only if no record with its identity was created since the form was
\* rendered; if one was, the run aborts with already_configured.
C11_PasswordFinalizes ==
    [][\A f \in FlowIds :
          /\ C11_FormRendered(f)
          /\ C11_Selects(f) =>
                 IF flows'[f].unique_id \in CurrentIds
                 THEN /\ flows'[f].pc = "done"
                      /\ flows'[f].result.type = "abort"
                      /\ flows'[f].result.reason = "already_configured"
                      /\ entries' = entries
                 ELSE C11_PasswordForm(f)
          /\ C11_Submits(f) => C11_Success(f)]_vars

\* a run with two encrypted candidates of different models ended in success
\* with the type of the one selected from the form
C11_Witness ==
    \E f \in FlowIds :
        /\ Ended(f, "create_entry")
        /\ flows[f].source = "user"
        /\ Cardinality(C11_Encrypted(flows[f])) >= 2
        /\ flows[f].cur_step.step_id = "password"
        /\ flows[f].result.data = C11_DataOf(flows[f], "pw2")
        /\ flows[f].result.data[CONF_SENSOR_TYPE] = "hygrometer"
        /\ \E a \in C11_Encrypted(flows[f]) :
               flows[f].discovered_advs[a].modelName = BOT

\* the transient state of a run: selected candidate, candidate map, identity
C12_Transient(fl) ==
    [discovered_adv |-> fl.discovered_adv,
     discovered_advs |-> fl.discovered_advs,
     unique_id |-> fl.unique_id,
     source |-> fl.source,
     finalized |-> fl.finalized]

\* the form step_id as first rendered, but for the error map
C12_SameForm(fl, step_id, errors) ==
    /\ fl.result = [async_show_form(fl, step_id, {}, EmptyDict).result
                        EXCEPT !.errors = errors]
    /\ errors # {}

C12_AuthErrors == {<<CONF_USERNAME, "auth_failed">>}

C12_KeyErrors == {<<CONF_KEY_ID, "key_id_invalid">>,
                  <<CONF_ENCRYPTION_KEY, "encryption_key_invalid">>}

\* what the handlers return for rejected credentials and for an invalid pair
C12_Rejected(f) ==
    /\ flows[f].pc = "lock_auth:retrieve_lock_key" =>
           \A cloud \in Clouds :
               cloud.auth = "NotAuthorizedException" =>
                   LET fl == lock_auth_retrieved(Enter(flows[f]), cloud)
                   IN  /\ C12_SameForm(fl, "lock_auth", C12_AuthErrors)
                       /\ C12_Transient(fl) = C12_Transient(flows[f])
    /\ flows[f].pc = "lock_key:verify_encryption_key" =>
           LET fl == lock_key_verified(Enter(flows[f]), "False")
           IN  /\ C12_SameForm(fl, "lock_key", C12_KeyErrors)
               /\ C12_Transient(fl) = C12_Transient(flows[f])

\* a submission to lock_auth or lock_key, and its failure, as steps of run f
C12_FailedStep(f) ==
    LET step_id == flows[f].cur_step.step_id
    IN  /\ (/\ MayDispatch(f, step_id)
            /\ step_id \in {"lock_auth", "lock_key"}
            /\ flows'[f].pc \notin {"suspended", "removed"})
           => /\ flows'[f].pc \in {"lock_auth:retrieve_lock_key",
                                    "lock_key:verify_encryption_key"}
              /\ flows'[f].cur_step = flows[f].cur_step
              /\ C12_Transient(flows'[f]) = C12_Transient(flows[f])
              /\ entries' = entries
        /\ (/\ flows[f].pc \in {"lock_auth:retrieve_lock_key",
                                  "lock_key:verify_encryption_key"}
            /\ flows'[f].pc = "suspended"
            /\ flows'[f].result.type = "form"
            /\ flows'[f].result.step_id = step_id)
           => /\ flows'[f].cur_step = flows'[f].result
              /\ C12_SameForm(flows'[f], step_id,
                     IF step_id = "lock_auth" THEN C12_AuthErrors ELSE C12_KeyErrors)
              /\ C12_Transient(flows'[f]) = C12_Transient(flows[f])
              /\ entries' = entries

\* C12: rejected credentials submitted to lock_auth, or an invalid key pair
\* submitted to lock_key, any number of times in a row, render the same form
\* each time; the selected candidate, the candidate map, the identity of the
\* run and the store are unchanged, and the form differs from its first
\* render by the error map only (on the username field for lock_auth).
C12_SameFormOnFailure ==
    /\ [](\A f \in FlowIds : C12_Rejected(f))
    /\ [][\A f \in FlowIds : C12_FailedStep(f)]_vars

\* credentials are submitted again after a submission that was rejected
C12_Witness ==
    \E f \in FlowIds :
        /\ flows[f].pc = "lock_auth:retrieve_lock_key"
        /\ flows[f].cur_step.step_id = "lock_auth"
        /\ flows[f].cur_step.errors = C12_AuthErrors

\* run f waits for input or for a call it made
C13_Waiting(fl) == fl.pc \notin {"idle", "done", "removed"}

\* a run that waits has not invoked the finalizer, and every record of the
\* store was written by the finalize action of a run that ended in success
C13_NothingWritten ==
    /\ \A f \in FlowIds : C13_Waiting(flows[f]) => flows[f].finalized = 0
    /\ \A i \in 1 .. Len(entries) :
           \E f \in FlowIds :
               /\ Ended(f, "create_entry")
               /\ flows[f].finalized = 1
               /\ flows[f].unique_id = entries[i].unique_id

\* a step that leaves run f waiting, or abandons it, leaves the store alone,
\* and a step that changes the store ends a run in success
C13_StoreStep ==
    /\ \A f \in FlowIds :
           (/\ flows'[f] # flows[f]
            /\ C13_Waiting(flows'[f]) \/ flows'[f].pc = "removed")
           => entries' = entries
    /\ entries' # entries =>
           \E f \in FlowIds :
               /\ flows[f].pc # "done"
               /\ flows'[f].pc = "done"
               /\ flows'[f].result.type = "create_entry"
               /\ \A g \in FlowIds \ {f} : flows'[g] = flows[g]

\* C13: at every suspension point a run has written nothing to the store;
\* the store is modified only by the finalize action that ends a run, and
\* abandoning a run leaves the store as it was, apart from what other runs
\* have written.
C13_StoreOnlyFinalized ==
    /\ []C13_NothingWritten
    /\ [][C13_StoreStep]_vars

\* a run was abandoned after another run had written its record
C13_Witness ==
    \E f, g \in FlowIds :
        /\ flows[f].pc = "removed"
        /\ Ended(g, "create_entry")
        /\ Len(entries) = 1

\* a passive run whose event parsed and whose identity was not configured
C14_PassiveDecided(f) ==
    /\ flows[f].source = "bluetooth"
    /\ flows[f].discovery_info.parses
    /\ ~Aborted(f, "already_configured")
    /\ flows[f].pc # "removed"

\* C14: the eligibility test of passive discovery and the one of active
\* discovery accept the same (model, connectable) pairs, for every model and
\* both transports: as predicates, on every event a passive run was started
\* from, and on every candidate active discovery put in a map.
C14_SameEligibility ==
    /\ \A model_name \in ParsedModels \cup {NoAdv.modelName}, connectable \in BOOLEAN :
           PassiveEligible([connectable |-> connectable], model_name)
               <=> ActiveEligible([connectable |-> connectable], model_name)
    /\ \A f \in FlowIds :
           /\ C14_PassiveDecided(f) =>
                  (flows[f].discovered_adv # NoAdv
                      <=> ActiveEligible(flows[f].discovery_info,
                                         flows[f].discovery_info.modelName))
           /\ \A a \in DOMAIN flows[f].discovered_advs :
                  PassiveEligible(flows[f].discovered_advs[a],
                                  flows[f].discovered_advs[a].modelName)

\* a non-connectable event of a model that needs no connection was accepted
\* by a passive run and by the active discovery of another run
C14_Witness ==
    \E f, g \in FlowIds :
        /\ C14_PassiveDecided(f)
        /\ ~flows[f].discovery_info.connectable
        /\ flows[f].discovered_adv.modelName = METER
        /\ flows[g].source = "user"
        /\ \E a \in DOMAIN flows[g].discovered_advs :
               /\ ~flows[g].discovered_advs[a].connectable
               /\ flows[g].discovered_advs[a].modelName = METER

\* run f, an initial run of the PurpleAir wizard, takes a step from the form
\* step_id in which it calls its collaborator
C15_Calls(f, step_id) ==
    /\ PurpleAirMayDispatch(f, "user", step_id)
    /\ flows'[f] # flows[f]
    /\ flows'[f].called # "none"

\* the run stays on the form step_id, rendered again with the error under base
C15_Stays(f, step_id, error) ==
    /\ flows'[f].pc = "suspended"
    /\ flows'[f].cur_step.type = "form"
    /\ flows'[f].cur_step.step_id = step_id
    /\ flows'[f].cur_step.errors = {<<"base", error>>}
    /\ flows'[f].flow_data = flows[f].flow_data
    /\ entries' = entries

\* the run renders the next form, without an error
C15_Advances(f, step_id) ==
    /\ flows'[f].pc = "suspended"
    /\ flows'[f].cur_step.type = "form"
    /\ flows'[f].cur_step.step_id = step_id
    /\ flows'[f].cur_step.errors = {}
    /\ entries' = entries

\* the run ends with one record of its key: the data holds the key only and
\* the options hold the list of the chosen sensor only
C15_Created(f) ==
    \E s \in flows[f].cur_step.choices :
        LET i == EntryIndex(entries', flows[f].unique_id)
        IN  /\ flows'[f].result.type = "create_entry"
            /\ flows'[f].result.data = [api_key |-> flows[f].unique_id]
            /\ flows'[f].result.options = [sensor_indices |-> <<ParseInt(s)>>]
            /\ i # 0
            /\ entries'[i].data = flows'[f].result.data
            /\ entries'[i].options = flows'[f].result.options
            /\ \A j \in 1 .. Len(entries') :
                   entries'[j].unique_id = flows[f].unique_id => j = i

\* C15: in an initial run of the PurpleAir wizard a failing collaborator call
\* keeps the run on its step, rendered again with an error under base
\* (user: invalid_api_key for an invalid key, unknown for any other
\* exception; by_coordinates: no_sensors_near_coordinates for an empty
\* result, unknown for an exception); a call that succeeds advances user to
\* by_coordinates to choose_sensor, and choosing a sensor ends in one record
\* whose data is the key and whose options are the list of the chosen index.
C15_InitialRun ==
    [][\A f \in FlowIds :
          /\ C15_Calls(f, "user") =>
                 CASE flows'[f].called = "ok" -> C15_Advances(f, "by_coordinates")
                   [] flows'[f].called = "InvalidApiKeyError" ->
                          C15_Stays(f, "user", "invalid_api_key")
                   [] OTHER -> C15_Stays(f, "user", "unknown")
          /\ C15_Calls(f, "by_coordinates") =>
                 CASE flows'[f].called = "ok" -> C15_Advances(f, "choose_sensor")
                   [] flows'[f].called = "empty" ->
                          C15_Stays(f, "by_coordinates", "no_sensors_near_coordinates")
                   [] OTHER -> C15_Stays(f, "by_coordinates", "unknown")
          /\ (/\ PurpleAirMayDispatch(f, "user", "choose_sensor")
              /\ flows'[f].pc = "done")
             => C15_Created(f)]_vars

\* an initial run ended with its record after a form had been rendered again
C15_Witness ==
    \E f \in FlowIds :
        /\ flows[f].source = "user"
        /\ flows[f].pc = "done"
        /\ flows[f].result.type = "create_entry"
        /\ flows[f].retried
        /\ entries = <<[unique_id |-> TEST_API_KEY, title |-> <<"a", "b", "c", "d", "e">>,
                        data |-> [api_key |-> TEST_API_KEY],
                        options |-> [sensor_indices |-> <<123456>>]]>>

\* the list of sensors in the options of the record of run f
C16_Indices(store, f) == store[EntryIndex(store, flows[f].entry)].options.sensor_indices

\* run f, an options run, takes a step from the form step_id
C16_Submits(f, step_id) ==
    /\ PurpleAirMayDispatch(f, "options", step_id)
    /\ flows'[f] # flows[f]
    /\ flows'[f].pc # "removed"

\* the store but for the options of the record of run f
C16_OtherThanOptions(store, f) ==
    [j \in 1 .. Len(store) |->
        IF j = EntryIndex(store, flows[f].entry)
        THEN [store[j] EXCEPT !.options = EmptyDict] ELSE store[j]]

\* the search of add_sensor: a failure keeps the run on add_sensor and the
\* store as it is, a success renders choose_sensor
C16_Search(f) ==
    C16_Submits(f, "add_sensor") =>
        /\ flows'[f].pc = "suspended"
        /\ entries' = entries
        /\ flows'[f].cur_step.step_id =
               IF flows'[f].called = "ok" THEN "choose_sensor" ELSE "add_sensor"
        /\ flows'[f].called # "ok" => flows'[f].cur_step.errors # {}

\* choosing a sensor that is not in the list appends it to the list
C16_Appends(f) ==
    /\ \A s \in flows[f].cur_step.choices :
           ParseInt(s) \notin Range(C16_Indices(entries, f)) =>
               LET r == PurpleAir_options_choose_sensor(
                            PurpleAirEnter(flows[f]), [sensor_index |-> s],
                            ConfigEntryOf(flows[f])).result
               IN  /\ r.type = "create_entry"
                   /\ r.data.sensor_indices =
                          Append(C16_Indices(entries, f), ParseInt(s))
    /\ flows'[f].result.type = "create_entry" =>
           /\ flows'[f].pc = "done"
           /\ \E s \in flows[f].cur_step.choices :
                  /\ ParseInt(s) \notin Range(C16_Indices(entries, f))
                  /\ C16_Indices(entries', f) =
                         Append(C16_Indices(entries, f), ParseInt(s))
           /\ C16_OtherThanOptions(entries', f) = C16_OtherThanOptions(entries, f)

\* C16: in the add-sensor sub-flow a search that finds nothing or raises
\* keeps the flow at add_sensor and the options of the record unchanged; a
\* search that succeeds renders choose_sensor, and choosing a sensor that is
\* not in the list ends in success with its index appended at the end of the
\* list, the indices before it kept in order.
C16_AddSensorAppends ==
    [][\A f \in FlowIds :
          /\ C16_Search(f)
          /\ C16_Submits(f, "choose_sensor") => C16_Appends(f)]_vars

\* an options run, after a search that failed, appended the second sensor
C16_Witness ==
    \E f \in FlowIds :
        /\ flows[f].source = "options"
        /\ flows[f].pc = "done"
        /\ flows[f].result.type = "create_entry"
        /\ flows[f].retried
        /\ Len(entries) = 1
        /\ entries[1].options = [last_update_sensor_add |-> TRUE,
                                 sensor_indices |-> <<123456, 567890>>]

\* C17: choosing a sensor whose index is in the list aborts the sub-flow with
\* already_configured and leaves the options unchanged, and whatever add and
\* remove sub-flows have run, no list of sensors holds an index twice.
C17_NoDuplicateSensor ==
    /\ [](\A i \in 1 .. Len(entries) :
             LET l == entries[i].options.sensor_indices
             IN  \A j, k \in 1 .. Len(l) : j # k => l[j] # l[k])
    /\ [][\A f \in FlowIds :
             C16_Submits(f, "choose_sensor") =>
                 /\ \A s \in flows[f].cur_step.choices :
                        ParseInt(s) \in Range(C16_Indices(entries, f)) =>
                            LET r == PurpleAir_options_choose_sensor(
                                         PurpleAirEnter(flows[f]), [sensor_index |-> s],
                                         ConfigEntryOf(flows[f])).result
                            IN  r.type = "abort" /\ r.reason = "already_configured"
                 /\ flows'[f].result.type = "abort" =>
                        /\ flows'[f].pc = "done"
                        /\ flows'[f].result.reason = "already_configured"
                        /\ entries' = entries]_vars

\* an options run was aborted for a sensor that another run had added while
\* both were waiting at choose_sensor
C17_Witness ==
    \E f, g \in FlowIds :
        /\ f # g
        /\ flows[f].source = "options"
        /\ flows[f].pc = "done"
        /\ flows[f].result.reason = "already_configured"
        /\ flows[g].source = "options"
        /\ flows[g].pc = "done"
        /\ flows[g].result.type = "create_entry"
        /\ flows[f].cur_step.choices = flows[g].cur_step.choices

\* run f, a reauth run, takes a step
C18_Steps(f) ==
    /\ flows'[f] # flows[f]
    /\ flows'[f].source = "reauth"
    /\ flows'[f].pc # "removed"

\* the record of run f with this data, the rest of the store as it was
C18_Replaced(f, data) ==
    LET i == EntryIndex(entries, flows[f].entry)
    IN  /\ i # 0
        /\ entries' = [entries EXCEPT ![i].data = data]

\* C18: a reauth run never creates a record; while the check of the key
\* fails it renders reauth_confirm again with the error (invalid_api_key or
\* unknown) and the record is unchanged; when the check succeeds the data of
\* the record is replaced in place, the run ends with abort reason
\* reauth_successful, and the store holds as many records as before.
C18_ReauthInPlace ==
    [][\A f \in FlowIds :
          C18_Steps(f) =>
              /\ Len(entries') = Len(entries)
              /\ flows'[f].result.type # "create_entry"
              /\ flows'[f].called = "none" =>
                     /\ flows[f].pc = "idle"
                     /\ flows'[f].cur_step.step_id = "reauth_confirm"
                     /\ entries' = entries
              /\ flows'[f].called \notin {"none", "ok"} =>
                     /\ flows'[f].pc = "suspended"
                     /\ flows'[f].cur_step.step_id = "reauth_confirm"
                     /\ flows'[f].cur_step.errors =
                            {<<"base", IF flows'[f].called = "InvalidApiKeyError"
                                       THEN "invalid_api_key" ELSE "unknown">>}
                     /\ entries' = entries
              /\ flows'[f].called = "ok" =>
                     /\ flows'[f].pc = "done"
                     /\ flows'[f].result.type = "abort"
                     /\ flows'[f].result.reason = "reauth_successful"
                     /\ \E api_key \in ApiKeys :
                            C18_Replaced(f, [api_key |-> api_key])]_vars

\* a reauth run replaced the key of the record after a check that had failed
C18_Witness ==
    \E f \in FlowIds :
        /\ flows[f].source = "reauth"
        /\ flows[f].pc = "done"
        /\ flows[f].result.reason = "reauth_successful"
        /\ flows[f].retried
        /\ Len(entries) = 1
        /\ entries[1].unique_id = TEST_API_KEY
        /\ entries[1].data = [api_key |-> NEW_API_KEY]

\* a candidate that needs no extra input: not a lock and not encrypted
C19_Plain(adv) == adv # NoAdv /\ adv.modelName # LOCK /\ ~adv.isEncrypted

\* run f made its record from the confirm form, rendered and then submitted
C19_Confirmed(f) ==
    /\ flows[f].cur_step.step_id = "confirm"
    /\ flows[f].finalized = 1

\* run f made its record when its candidate was selected from the form
C19_Selected(f) ==
    /\ flows[f].source = "user"
    /\ flows[f].cur_step.step_id = "user"
    /\ flows[f].discovered_adv.address \in DOMAIN flows[f].cur_step.choices
    /\ flows[f].finalized = 1

\* C19 as stated: a record for a candidate that needs no extra input is
\* created only from the confirm form, rendered and then submitted in the
\* same run, on every entry path.
C19_Original ==
    \A f \in FlowIds :
        (Ended(f, "create_entry") /\ C19_Plain(flows[f].discovered_adv))
            => C19_Confirmed(f)

\* the entry of a run whose candidate needs no extra input renders confirm
C19_EntryConfirms(f) ==
    (/\ flows[f].pc = "idle"
     /\ C19_Plain(flows'[f].discovered_adv)
     /\ flows'[f].result.type # "abort")
    => /\ flows'[f].pc = "suspended"
       /\ flows'[f].cur_step.step_id = "confirm"
       /\ flows'[f].finalized = 0
       /\ entries' = entries

\* C19 amended: a candidate that needs no extra input passes through the
\* confirm form before the finalizer runs on the passive-discovery path and
\* on the single-candidate path; a candidate selected from the
\* multi-candidate form is finalized directly, without the confirm form.
C19_ConfirmUnlessSelected ==
    /\ [](\A f \in FlowIds :
             (Ended(f, "create_entry") /\ C19_Plain(flows[f].discovered_adv))
                 => IF flows[f].source = "user"
                       /\ Cardinality(DOMAIN flows[f].discovered_advs) >= 2
                    THEN C19_Selected(f)
                    ELSE C19_Confirmed(f))
    /\ [][\A f \in FlowIds : C19_EntryConfirms(f)]_vars

\* a run made its record from the confirm form and another from the selection
C19_Witness ==
    \E f, g \in FlowIds :
        /\ Ended(f, "create_entry")
        /\ C19_Plain(flows[f].discovered_adv)
        /\ C19_Confirmed(f)
        /\ Ended(g, "create_entry")
        /\ C19_Plain(flows[g].discovered_adv)
        /\ C19_Selected(g)

\* run f ends the wait for the verification of a pair of key id and key
C20_Verified(f) ==
    /\ flows[f].pc \in {"lock_key:verify_encryption_key",
                         "lock_auth:verify_encryption_key"}
    /\ flows'[f].pc # flows[f].pc

\* C20: a record is created from the lock_key state only if the device
\* verification returned true for the submitted pair, and the record holds
\* exactly the pair that was verified; when the verification returns false
\* the lock_key form is rendered with an error on the key id field and on
\* the key field, and no record is created.
C20_VerifiedKeyOnly ==
    [][\A f \in FlowIds :
          /\ (MayDispatch(f, "lock_key") /\ flows'[f].pc \notin {"suspended", "removed"})
             => /\ flows'[f].pc = "lock_key:verify_encryption_key"
                /\ flows'[f].pending \in KeyBundles
                /\ flows'[f].finalized = 0
                /\ entries' = entries
          /\ C20_Verified(f) =>
                /\ flows'[f].result.type = "create_entry" =>
                       /\ flows'[f].verified = "True"
                       /\ flows'[f].result.data =
                              [key_id |-> flows[f].pending[CONF_KEY_ID],
                               encryption_key |-> flows[f].pending[CONF_ENCRYPTION_KEY],
                               address |-> flows[f].discovered_adv.address,
                               sensor_type |-> SUPPORTED_MODEL_TYPES[
                                                   flows[f].discovered_adv.modelName]]
                       /\ \E i \in 1 .. Len(entries') :
                              /\ entries'[i].unique_id = flows[f].unique_id
                              /\ entries'[i].data = flows'[f].result.data
                /\ flows'[f].verified = "True" => flows'[f].result.type = "create_entry"
                /\ flows'[f].verified = "False" =>
                       /\ flows'[f].pc = "suspended"
                       /\ flows'[f].cur_step.step_id = "lock_key"
                       /\ flows'[f].cur_step.errors =
                              {<<CONF_KEY_ID, "key_id_invalid">>,
                               <<CONF_ENCRYPTION_KEY, "encryption_key_invalid">>}
                       /\ flows'[f].finalized = 0
                       /\ entries' = entries]_vars

\* a pair submitted to lock_key was verified after one that was not
C20_Witness ==
    \E f \in FlowIds :
        /\ Ended(f, "create_entry")
        /\ flows[f].cur_step.step_id = "lock_key"
        /\ flows[f].cur_step.errors # {}
        /\ flows[f].verified = "True"
        /\ flows[f].result.data[CONF_KEY_ID] = "k2"

\* run f starts from a passive event whose identity the store already holds
C21_ConfiguredEvent(f) ==
    /\ flows[f].pc = "idle"
    /\ flows'[f].source = "bluetooth"
    /\ format_unique_id(flows'[f].discovery_info.address) \in CurrentIds

\* C21: in the passive-discovery entry step the duplicate check comes before
\* the type and transport tests and before the candidate is set: a passive
\* event whose identity is already configured ends the run with
\* already_configured, never with not_supported and never with a form,
\* whatever its model or transport, and the run's candidate stays unset.
C21_DuplicateFirst ==
    [][\A f \in FlowIds :
          C21_ConfiguredEvent(f) =>
              /\ flows'[f].pc = "done"
              /\ flows'[f].result.type = "abort"
              /\ flows'[f].result.reason = "already_configured"
              /\ flows'[f].cur_step = NoResult
              /\ flows'[f].discovered_adv = NoAdv
              /\ flows'[f].unique_id =
                     format_unique_id(flows'[f].discovery_info.address)
              /\ entries' = entries]_vars

\* a configured identity was seen again in an event the later tests reject
C21_Witness ==
    \E f \in FlowIds :
        /\ flows[f].source = "bluetooth"
        /\ Aborted(f, "already_configured")
        /\ flows[f].unique_id \in CurrentIds
        /\ flows[f].discovered_adv = NoAdv
        /\ LET info == flows[f].discovery_info
           IN  \/ ~info.parses
               \/ ~PassiveEligible(info, info.modelName)

\* run f submitted credentials to lock_auth and ended with a record
C22_Success(f) ==
    /\ Ended(f, "create_entry")
    /\ flows[f].credentials # NoInput

\* the record of run f was made from the bundle the resolver returned
C22_FromBundle(f) ==
    /\ C22_Success(f)
    /\ flows[f].cur_step.step_id = "lock_auth"

\* the data of run f holds the four fields and nothing of the credentials
C22_NoCredentials(f) ==
    LET data == flows[f].result.data
    IN  /\ DOMAIN data = {CONF_KEY_ID, CONF_ENCRYPTION_KEY, CONF_ADDRESS,
                          CONF_SENSOR_TYPE}
        /\ data[CONF_ADDRESS] = flows[f].discovered_adv.address
        /\ data[CONF_SENSOR_TYPE] =
               SUPPORTED_MODEL_TYPES[flows[f].discovered_adv.modelName]
        /\ \A k \in DOMAIN data :
               /\ data[k] # flows[f].credentials[CONF_USERNAME]
               /\ data[k] # flows[f].credentials[CONF_PASSWORD]

\* the resolver has returned to run f: only its bundle is handed on, and
\* the record made from it holds the bundle, the address and the type
C22_BundleOnly(f) ==
    /\ (/\ flows[f].pc = "lock_auth:retrieve_lock_key"
         /\ flows'[f].pc = "lock_auth:verify_encryption_key")
       => /\ flows[f].pending = flows[f].credentials
          /\ flows'[f].pending \in KeyBundles
          /\ flows'[f].finalized = 0
          /\ entries' = entries
    /\ (/\ flows[f].pc = "lock_auth:verify_encryption_key"
         /\ flows'[f].result.type = "create_entry")
       => /\ flows'[f].result.data =
                 Merge(flows[f].pending,
                       [address |-> flows[f].discovered_adv.address,
                        sensor_type |-> SUPPORTED_MODEL_TYPES[
                                            flows[f].discovered_adv.modelName]])
          /\ \E i \in 1 .. Len(entries') :
                 entries'[i].data = flows'[f].result.data

\* C22: the username and the password submitted to lock_auth are never
\* written to the store: the record of a run that went through lock_auth
\* and ended in success holds only the key id, the key, the address and the
\* sensor type, and two runs for the same device whose resolver returned
\* the same bundle make the same data whatever credentials they submitted.
C22_CredentialsNotStored ==
    /\ [](/\ \A f \in FlowIds : C22_Success(f) => C22_NoCredentials(f)
          /\ \A f, g \in FlowIds :
                 (/\ C22_FromBundle(f)
                  /\ C22_FromBundle(g)
                  /\ flows[f].discovered_adv.address = flows[g].discovered_adv.address
                  /\ flows[f].result.data[CONF_KEY_ID] =
                         flows[g].result.data[CONF_KEY_ID]
                  /\ flows[f].result.data[CONF_ENCRYPTION_KEY] =
                         flows[g].result.data[CONF_ENCRYPTION_KEY])
                 => flows[f].result.data = flows[g].result.data
          /\ \A i \in 1 .. Len(entries) :
                 CONF_USERNAME \notin DOMAIN entries[i].data)
    /\ [][\A f \in FlowIds : C22_BundleOnly(f)]_vars

\* two runs with different credentials made the same data from one bundle
C22_Witness ==
    \E f, g \in FlowIds :
        /\ C22_FromBundle(f)
        /\ C22_FromBundle(g)
        /\ flows[f].credentials # flows[g].credentials
        /\ flows[f].result.data = flows[g].result.data
        /\ \E i \in 1 .. Len(entries) : entries[i].data = flows[f].result.data

\* a step of run f has run the finalizer
C23_Finalizes(f) ==
    /\ flows'[f] # flows[f]
    /\ flows'[f].result.type = "create_entry"

\* the record run f has made names the run's candidate and identity
C23_OfCandidate(f) ==
    /\ flows[f].discovered_adv # NoAdv
    /\ flows[f].result.data[CONF_ADDRESS] = flows[f].discovered_adv.address
    /\ flows[f].unique_id = format_unique_id(flows[f].discovered_adv.address)

\* C23: whenever the finalizer creates a record, the address stored in the
\* record is the address of the run's currently selected candidate and the
\* run's identity is format_unique_id of that address, on the three entry
\* paths and when the user step is submitted or entered again; so every
\* record of the store is filed under the identity of its own address.
C23_AddressOfCandidate ==
    /\ [](/\ \A f \in FlowIds : Ended(f, "create_entry") => C23_OfCandidate(f)
          /\ \A f \in FlowIds :
                 flows[f].discovered_adv # NoAdv
                    => flows[f].unique_id =
                           format_unique_id(flows[f].discovered_adv.address)
          /\ \A i \in 1 .. Len(entries) :
                 entries[i].unique_id =
                     format_unique_id(entries[i].data[CONF_ADDRESS]))
    /\ [][\A f \in FlowIds :
              C23_Finalizes(f) =>
                  \E i \in 1 .. Len(entries') :
                      /\ entries'[i].unique_id = flows'[f].unique_id
                      /\ entries'[i].data = flows'[f].result.data
                      /\ entries'[i].data[CONF_ADDRESS] =
                             flows'[f].discovered_adv.address]_vars

\* a passive run and a run of the user, which selected its device from the
\* form, have each made the record of their own candidate
C23_Witness ==
    \E f, g \in FlowIds :
        /\ flows[f].source = "bluetooth"
        /\ Ended(f, "create_entry")
        /\ C23_OfCandidate(f)
        /\ flows[g].source = "user"
        /\ flows[g].cur_step.step_id = "user"
        /\ Ended(g, "create_entry")
        /\ C23_OfCandidate(g)
        /\ flows[f].unique_id # flows[g].unique_id
        /\ Len(entries) = 2

\* the steps that assert a selected candidate when they start
C24_AssertingSteps ==
    {"confirm", "password", "lock_auth", "lock_chose_method", "lock_key"}

\* the assertion of a step or of the finalizer has failed in run f
C24_AssertionFailed(f) ==
    /\ flows[f].result.type = "error"
    /\ flows[f].result.reason = "AssertionError"

\* a step of run f keeps the candidate the run has selected
C24_KeepsCandidate(f) ==
    (flows[f].discovered_adv # NoAdv /\ flows'[f].pc # "removed")
        => flows'[f].discovered_adv = flows[f].discovered_adv

\* C24: the assertion that a candidate is selected, made at the start of
\* confirm, password, lock_auth, lock_chose_method, lock_key and the
\* finalizer, never fails in a run the host starts at the bluetooth or the
\* user step and drives by dispatching the step whose form was last
\* rendered: the forms of those steps are rendered only after a candidate
\* was selected, a waiting or finalizing run has one, and the selection is
\* never cleared.
C24_AssertNeverFails ==
    /\ [](\A f \in FlowIds :
             /\ ~C24_AssertionFailed(f)
             /\ (\/ flows[f].cur_step.step_id \in C24_AssertingSteps
                 \/ flows[f].pc \in {"lock_auth:retrieve_lock_key",
                                     "lock_auth:verify_encryption_key",
                                     "lock_key:verify_encryption_key"}
                 \/ flows[f].finalized > 0)
                => flows[f].discovered_adv # NoAdv)
    /\ [][\A f \in FlowIds : C24_KeepsCandidate(f)]_vars

\* a lock selected from the form went through the choice of the method, the
\* credentials and the key form, each of which asserted the candidate
C24_Witness ==
    \E f \in FlowIds :
        /\ flows[f].source = "user"
        /\ flows[f].pc = "suspended"
        /\ flows[f].cur_step.step_id = "lock_key"
        /\ flows[f].credentials # NoInput
        /\ flows[f].verified = "False"
        /\ flows[f].discovered_adv.modelName = LOCK
        /\ Cardinality(DOMAIN flows[f].discovered_advs) >= 2
        /\ ~C24_AssertionFailed(f)

====
